---- MODULE Spec2Model ----
(***************************************************************************)
(* eat-and-pay backend: the Wallet Ledger (internal/service/wallet.go),    *)
(* the user directory it consults (internal/service/user_data.go) and the  *)
(* Order Ledger with the Cart Store behind it.                             *)
(*                                                                         *)
(* Time is counted in minutes.  Amounts and balances are Go ints; the      *)
(* amounts drawn here stay far from the int64 limits, so the arithmetic    *)
(* below is exact.                                                         *)
(***************************************************************************)
EXTENDS Integers, Sequences, FiniteSets, TLC

(***************************************************************************)
(* Bounds of the model.                                                    *)
(***************************************************************************)
\* total number of ledger entries over all users (the seed holds three)
MaxEntries == 5
\* number of clock advances
MaxTicks == 1
\* calls each concurrent request thread issues
MaxCalls == 1

(***************************************************************************)
(* Program constants.                                                      *)
(***************************************************************************)
\* the daily top-up cap
TopupLimit == 1000
\* minutes per calendar day: the key time.Now().Format("2006-01-02")
DayLen == 1440
\* balance of the seeded card
SeedBalance == 1500

TestUser == "4479081e-fd93-499c-bf8b-1ad190b052e6"
TestPhone == "123123"

Users == {TestUser, "u2", "u3"}
Phones == {TestPhone, "7902", "7903"}
\* generateRandomPhoneNumber: any number, one already in use included
RandomPhones == {"7903"}
TopupAmounts == {-2000, 400, 600}
TransferAmounts == {-500, 500, 2000}
\* the callers of the wallet; "u3" only receives
Callers == {TestUser, "u2"}
\* <<caller, account id>> of a wallet call: the caller's own account where
\* the ledger holds it, an unknown account where it does not
AccountArgs == {<<TestUser, "card1">>, <<"u2", "acc2">>}
Pages == {1}
PageSizes == {2}
TickStep == 5

StartTime == DayLen - TickStep
MaxTime == StartTime + TickStep * MaxTicks

VARIABLES
  accounts,      \* WalletService.accounts: userID -> accountID -> Account
  transactions,  \* WalletService.transactions: userID -> list of entries
  dailyTopups,   \* WalletService.dailyTopups: userID -> day -> total
  userPhones,    \* WalletService.userPhones: userID -> phone (cache)
  profileInfo,   \* UserData.profileInfo: userID -> phone
  now,           \* the wall clock, minutes
  accepted,      \* history: <<user, day>> -> sum of the accepted top-ups
  ret,           \* what the last call returned
  mux,           \* WalletService.mux: the writer and the readers holding it
  pc,            \* per request thread: where it stands in its call
  loc,           \* per request thread: its call, locals and result
  ncalls,        \* per request thread: calls issued so far
  orders,        \* OrderService.orders: user -> the user's orders, oldest first
  items,         \* Cart.items: user -> product -> CartItem
  oret,          \* what the last order or cart call returned
  cmux,          \* Cart.mux
  omux,          \* OrderService.mux
  smux,          \* the mutexes of UserData, ProductsService, Favourites and
                 \* AddressService, by service
  favourites     \* Favourites.favourites: user -> the products marked

seqVars == <<accounts, transactions, dailyTopups, userPhones, profileInfo, now,
             accepted, ret>>

concVars == <<mux, pc, loc, ncalls, cmux, omux, smux, favourites>>

orderVars == <<orders, items, oret>>

vars == <<seqVars, concVars, orderVars>>

walletState == <<accounts, transactions, dailyTopups, userPhones>>

(***************************************************************************)
(* Go maps as functions on the set of their keys.                          *)
(***************************************************************************)
Has(m, k) == k \in DOMAIN m

Put(m, k, v) == [x \in (DOMAIN m) \cup {k} |-> IF x = k THEN v ELSE m[x]]

Get(m, k, dflt) == IF Has(m, k) THEN m[k] ELSE dflt

EmptyMap == [x \in {} |-> 0]

Day(t) == t \div DayLen

Log(txs, u) == Get(txs, u, << >>)

RECURSIVE SumLens(_, _)
SumLens(txs, us) ==
  IF us = {} THEN 0
  ELSE LET u == CHOOSE x \in us : TRUE
       IN Len(txs[u]) + SumLens(txs, us \ {u})

TotalEntries(txs) == SumLens(txs, DOMAIN txs)

\* what a call hands back: the operation, the error kind and message (or
\* "ok"), the number and the data it returns
Ret(op, err, msg, val, data) ==
  [op |-> op, err |-> err, msg |-> msg, val |-> val, data |-> data]

NoData == << >>

(***************************************************************************)
(* Construction: NewWalletService + initTestData seed the test user's card *)
(* and three entries.  Accounts of other users are pre-provisioned data    *)
(* (wallet_data.json); the ledger never creates an account itself.         *)
(***************************************************************************)
\* an entry that loses its amount
EntryWithoutAmount(amount, title, t, icon) ==
  [Amount |-> 0, Title |-> title, Time |-> t, Icon |-> icon]

Entry(amount, title, t, icon) ==
  [Amount |-> amount, Title |-> title, Time |-> t, Icon |-> icon]

SeedTransactions(t) ==
  << Entry(-250, <<"shop">>, t - 120, "shop-icon"),
     Entry(-100, <<"coffee">>, t - 60, "coffee-icon"),
     Entry(500, <<"topup">>, t - 30, "topup-icon") >>

Account(id, type, balance) == [ID |-> id, Type |-> type, Balance |-> balance]

SeedAccounts ==
  [u \in {TestUser} |-> [a \in {"card1"} |-> Account("card1", "card", SeedBalance)]]

ProvisionedAccounts ==
  [u \in Users |->
     IF u = TestUser THEN SeedAccounts[TestUser]
     ELSE IF u = "u2" THEN [a \in {"acc2", "sav2"} |->
                              IF a = "acc2" THEN Account("acc2", "card", 500)
                              ELSE Account("sav2", "savings", 0)]
     ELSE EmptyMap]

\* the user directory as loaded at startup (user_profiles.json): one where
\* the test user's phone is the one the wallet caches, one where it is not
Profiles1 == [u \in {TestUser, "u2"} |-> IF u = TestUser THEN TestPhone ELSE "7902"]

Profiles2 == [u \in {TestUser, "u3"} |-> IF u = TestUser THEN "7903" ELSE "7902"]

InitConfigs ==
  { <<SeedAccounts, Profiles1>>, <<ProvisionedAccounts, Profiles1>>,
    <<ProvisionedAccounts, Profiles2>> }

Threads == {"t1", "t2"}

Idle ==
  [op |-> "idle", user |-> "", acct |-> "", phone |-> "", amount |-> 0,
   today |-> 0, toUser |-> "", toAcct |-> "", time |-> 0, sphone |-> "",
   seen |-> 0, err |-> "", msg |-> "", val |-> 0, snap |-> NoData,
   arg |-> "", cart |-> NoData]

\* a sync.RWMutex: the thread holding it for writing, the threads holding it
\* for reading, and the threads that have called Lock and wait for it
Unlocked == [writer |-> "none", readers |-> {}, waiting |-> {}]

Services == {"users", "products", "favourites", "addresses"}

\* NewFavouritesService over no data.  A user without an entry stands for a
\* user with an empty one: IsFavourite makes the entry where it is missing
\* and answers false, as it does on an empty entry.
NoFavourites == [u \in Users |-> {}]

ThreadsInit ==
  /\ mux = Unlocked
  /\ cmux = Unlocked
  /\ omux = Unlocked
  /\ smux = [n \in Services |-> Unlocked]
  /\ favourites = NoFavourites
  /\ pc = [t \in Threads |-> "idle"]
  /\ loc = [t \in Threads |-> Idle]
  /\ ncalls = [t \in Threads |-> 0]

OrdersNone(o, i, r) == o = EmptyMap /\ i = EmptyMap /\ r = NoData

WalletInit ==
  /\ ThreadsInit
  /\ OrdersNone(orders, items, oret)
  /\ \E c \in InitConfigs : accounts = c[1] /\ profileInfo = c[2]
  /\ transactions = [u \in {TestUser} |-> SeedTransactions(StartTime)]
  /\ dailyTopups = EmptyMap
  /\ userPhones = [u \in {TestUser} |-> TestPhone]
  /\ now = StartTime
  /\ accepted = EmptyMap
  /\ ret = Ret("none", "ok", "", 0, NoData)

WalletFail(op, err, msg) ==
  /\ ret' = Ret(op, err, msg, 0, NoData)
  /\ UNCHANGED <<accounts, transactions, dailyTopups, userPhones, profileInfo,
                 now, accepted>>

(***************************************************************************)
(* TopupAccount                                                            *)
(***************************************************************************)
DailyTotal(dt, u, d) == IF Has(dt, u) THEN Get(dt[u], d, 0) ELSE 0

\* a cap check that forgets what the day already holds
ExceedsDailyLimitPerCall(cur, amount) == amount > TopupLimit

ExceedsDailyLimit(cur, amount) == cur + amount > TopupLimit

\* a day map made anew at every call
EnsureDayFresh(dt, u) == Put(dt, u, EmptyMap)

\* lines 183-185: the user's day map, made when there is none
EnsureDay(dt, u) == IF Has(dt, u) THEN dt ELSE Put(dt, u, EmptyMap)

TopupAccount(u, acct, amount) ==
  LET today == Day(now)
      dt1 == EnsureDay(dailyTopups, u)
      cur == DailyTotal(dt1, u, today)
      err == IF ExceedsDailyLimit(cur, amount) THEN "daily topup limit exceeded"
             ELSE IF ~Has(accounts, u) \/ ~Has(accounts[u], acct) THEN "account not found"
             ELSE "ok"
  IN IF err # "ok"
     THEN /\ dailyTopups' = dt1
          /\ ret' = Ret("TopupAccount",
                        IF err = "account not found" THEN "NotFound" ELSE "BadRequest",
                        err, 0, NoData)
          /\ UNCHANGED <<accounts, transactions, userPhones, profileInfo, now, accepted>>
     ELSE /\ TotalEntries(transactions) < MaxEntries
          /\ accounts' = [accounts EXCEPT ![u][acct].Balance = @ + amount]
          /\ dailyTopups' = [dt1 EXCEPT ![u] = Put(@, today, cur + amount)]
          /\ transactions' = Put(transactions, u,
                                 Append(Log(transactions, u),
                                        Entry(amount, <<"topup">>, now, "")))
          /\ accepted' = Put(accepted, <<u, today>>,
                             Get(accepted, <<u, today>>, 0) + amount)
          /\ ret' = Ret("TopupAccount", "ok", "", accounts[u][acct].Balance + amount, NoData)
          /\ UNCHANGED <<userPhones, profileInfo, now>>

(***************************************************************************)
(* UserData: GetUserIDByPhone, GetProfile                                  *)
(***************************************************************************)
\* the users the loop over the map can return: the first match in an
\* iteration order that Go leaves unspecified
\* a lookup that matches every profile, whatever its number
GetUserIDByPhoneAnyone(profiles, phone) == DOMAIN profiles

GetUserIDByPhone(profiles, phone) == {v \in DOMAIN profiles : profiles[v] = phone}

\* GetProfile creates a missing profile under a random phone number
GetProfilePhones(profiles, u) ==
  IF Has(profiles, u) THEN {profiles[u]} ELSE RandomPhones

\* a GetProfile that reports a missing profile instead of creating it
GetProfileErrIfMissing(profiles, u) == ~Has(profiles, u)

\* GetProfile's error: always nil
GetProfileErr(profiles, u) == FALSE

GetProfile(u) ==
  \E ph \in GetProfilePhones(profileInfo, u) :
    /\ profileInfo' = Put(profileInfo, u, ph)
    /\ ret' = Ret("GetProfile", "ok", "", 0, ph)
    /\ UNCHANGED <<accounts, transactions, dailyTopups, userPhones, now, accepted>>

(***************************************************************************)
(* TransferMoney                                                           *)
(***************************************************************************)
\* a funds check that looks at the balance alone
InsufficientFundsIgnoringAmount(balance, amount) == balance < 0

InsufficientFunds(balance, amount) == balance < amount

Debit(balance, amount) == balance - amount

\* a credit that is lost
CreditLost(balance, amount) == balance

Credit(balance, amount) == balance + amount

FromTitle(phone) == <<"transfer to", phone>>

ToTitle(phone) == <<"transfer from", phone>>

\* the entries of one transfer: the sender's, then the recipient's
FromEntry(amount, phone, t) == Entry(0 - amount, FromTitle(phone), t, "")

\* a recipient entry stamped by a second reading of the clock
ToEntryStampedLater(amount, phone, t) == Entry(amount, ToTitle(phone), t + 1, "")

ToEntry(amount, phone, t) == Entry(amount, ToTitle(phone), t, "")

\* lines 272-307: the mutation, once every check has passed
DoTransfer(u, fromAcct, phone, amount, toUser, toAcct) ==
  LET acc1 == [accounts EXCEPT ![u][fromAcct].Balance = Debit(@, amount)]
      acc2 == [acc1 EXCEPT ![toUser][toAcct].Balance = Credit(@, amount)]
      transferTime == now
      tx1 == Put(transactions, u,
                 Append(Log(transactions, u), FromEntry(amount, phone, transferTime)))
      cached == Has(userPhones, u)
  IN /\ TotalEntries(transactions) + 1 < MaxEntries
     /\ accounts' = acc2
     /\ \E ph \in (IF cached THEN {userPhones[u]} ELSE GetProfilePhones(profileInfo, u)) :
          /\ profileInfo' = IF cached THEN profileInfo ELSE Put(profileInfo, u, ph)
          /\ IF ~cached /\ GetProfileErr(profileInfo, u)
             THEN /\ transactions' = tx1
                  /\ userPhones' = userPhones
                  /\ ret' = Ret("TransferMoney", "Internal", "failed to get sender phone",
                                0, NoData)
             ELSE /\ userPhones' = Put(userPhones, u, ph)
                  /\ transactions' = Put(tx1, toUser,
                                         Append(Log(tx1, toUser),
                                                ToEntry(amount, ph, transferTime)))
                  /\ ret' = Ret("TransferMoney", "ok", "", acc2[u][fromAcct].Balance, NoData)
     /\ UNCHANGED <<dailyTopups, now, accepted>>

TransferMoney(u, fromAcct, phone, amount) ==
  IF ~Has(accounts, u) \/ ~Has(accounts[u], fromAcct)
  THEN WalletFail("TransferMoney", "NotFound", "sender account not found")
  ELSE IF InsufficientFunds(accounts[u][fromAcct].Balance, amount)
  THEN WalletFail("TransferMoney", "BadRequest", "insufficient funds")
  ELSE IF GetUserIDByPhone(profileInfo, phone) = {}
  THEN WalletFail("TransferMoney", "NotFound", "recipient not found")
  ELSE \E toUser \in GetUserIDByPhone(profileInfo, phone) :
         IF toUser = u
         THEN WalletFail("TransferMoney", "BadRequest", "cannot transfer to yourself")
         ELSE IF ~Has(accounts, toUser)
         THEN WalletFail("TransferMoney", "NotFound", "recipient account not found")
         ELSE IF DOMAIN accounts[toUser] = {}
         THEN WalletFail("TransferMoney", "NotFound", "recipient has no accounts")
         ELSE \E toAcct \in DOMAIN accounts[toUser] :
                DoTransfer(u, fromAcct, phone, amount, toUser, toAcct)

(***************************************************************************)
(* GetWallet, GetTransactions, GetBackupData                               *)
(***************************************************************************)
GetWallet(u) ==
  /\ ret' = Ret("GetWallet", "ok", "", 0, Get(accounts, u, EmptyMap))
  /\ UNCHANGED <<accounts, transactions, dailyTopups, userPhones, profileInfo,
                 now, accepted>>

\* sort.Slice with less = "i is after j": every arrangement of the slice that
\* is newest first (the sort is not stable, so ties may land in any order)
RECURSIVE NewestFirst(_, _)
NewestFirst(log, idx) ==
  IF idx = {} THEN { << >> }
  ELSE UNION { { <<log[i]>> \o r : r \in NewestFirst(log, idx \ {i}) } :
               i \in {j \in idx : \A k \in idx : log[j].Time >= log[k].Time} }

\* every newest-first arrangement of the slice, whatever order it is in
AnyNewestFirst(log) == NewestFirst(log, 1..Len(log))

\* line 133, sort.Slice as the build has it (pdqsort; request.PathValue in the
\* handlers needs Go 1.22): a slice in which less finds no entry after its
\* predecessor is left as it is, any other comes out newest first
SortSlice(log) ==
  IF \A i \in 2..Len(log) : ~(log[i].Time > log[i - 1].Time)
  THEN {log}
  ELSE NewestFirst(log, 1..Len(log))

\* a page count that drops the last, partly filled page
FloorDiv(n, p) == n \div p

CeilDiv(n, p) == (n + p - 1) \div p

Min(a, b) == IF a < b THEN a ELSE b

\* the entries of a page under their date keys, in page order
ByDate(page) ==
  [d \in {Day(page[i].Time) : i \in 1..Len(page)} |->
     SelectSeq(page, LAMBDA e : Day(e.Time) = d)]

GetTransactions(u, page, pageSize) ==
  IF ~Has(transactions, u)
  THEN /\ ret' = Ret("GetTransactions", "ok", "", 0,
                     [CurrentPage |-> page, TotalPages |-> 0, Data |-> EmptyMap])
       /\ UNCHANGED <<accounts, transactions, dailyTopups, userPhones, profileInfo,
                      now, accepted>>
  ELSE \E sorted \in SortSlice(transactions[u]) :
         LET total == Len(sorted)
             totalPages == CeilDiv(total, pageSize)
             start == (page - 1) * pageSize
             end == Min(start + pageSize, total)
             data == IF start >= total THEN EmptyMap
                     ELSE ByDate(SubSeq(sorted, start + 1, end))
         IN /\ transactions' = [transactions EXCEPT ![u] = sorted]
            /\ ret' = Ret("GetTransactions", "ok", "", 0,
                          [CurrentPage |-> page, TotalPages |-> totalPages, Data |-> data])
            /\ UNCHANGED <<accounts, dailyTopups, userPhones, profileInfo, now, accepted>>

WalletBackup ==
  [Accounts |-> accounts, Transactions |-> transactions,
   DailyTopups |-> dailyTopups, UserPhones |-> userPhones]

WalletGetBackupData ==
  /\ ret' = Ret("GetBackupData", "ok", "", 0, WalletBackup)
  /\ UNCHANGED <<accounts, transactions, dailyTopups, userPhones, profileInfo,
                 now, accepted>>

Tick ==
  /\ now + TickStep <= MaxTime
  /\ now' = now + TickStep
  /\ ret' = Ret("Tick", "ok", "", 0, NoData)
  /\ UNCHANGED <<accounts, transactions, dailyTopups, userPhones, profileInfo, accepted>>

WalletNext ==
  \/ \E c \in AccountArgs, m \in TopupAmounts :
       TopupAccount(c[1], c[2], m) /\ UNCHANGED <<concVars, orderVars>>
  \/ \E c \in AccountArgs, ph \in Phones, m \in TransferAmounts :
       TransferMoney(c[1], c[2], ph, m) /\ UNCHANGED <<concVars, orderVars>>
  \/ \E u \in Callers : GetWallet(u) /\ UNCHANGED <<concVars, orderVars>>
  \/ \E u \in Callers, p \in Pages, ps \in PageSizes :
       GetTransactions(u, p, ps) /\ UNCHANGED <<concVars, orderVars>>
  \/ WalletGetBackupData /\ UNCHANGED <<concVars, orderVars>>
  \/ Tick /\ UNCHANGED <<concVars, orderVars>>

WalletSpec == WalletInit /\ [][WalletNext]_vars

(***************************************************************************)
(* The calls that write the ledger or the user directory, one at a time    *)
(***************************************************************************)
\* <<caller, account id>> of a top-up: AccountArgs and an account id the
\* test user does not have
TopupArgs == AccountArgs \cup {<<TestUser, "nocard">>}

\* the amounts of a transfer that moves money to the recipient
LedgerAmounts == {m \in TransferAmounts : m > 0}

LedgerNext ==
  \/ \E c \in TopupArgs, m \in TopupAmounts :
       TopupAccount(c[1], c[2], m) /\ UNCHANGED <<concVars, orderVars>>
  \/ \E c \in AccountArgs, ph \in Phones, m \in LedgerAmounts :
       TransferMoney(c[1], c[2], ph, m) /\ UNCHANGED <<concVars, orderVars>>
  \/ \E u \in Callers : GetProfile(u) /\ UNCHANGED <<concVars, orderVars>>
  \/ Tick /\ UNCHANGED <<concVars, orderVars>>

LedgerSpec == WalletInit /\ [][LedgerNext]_vars

(***************************************************************************)
(* GetTransactions over a range of pages and page sizes, while top-ups     *)
(* lengthen the log                                                        *)
(***************************************************************************)
\* the largest page number asked for
MaxPage == 4
\* the largest page size asked for
MaxPageSize == 3

\* the top-ups that lengthen the log of the test user
PagingTopups == {<<TestUser, "card1", 400>>}

PagingNext ==
  \/ \E u \in Callers, p \in 1..MaxPage, ps \in 1..MaxPageSize :
       GetTransactions(u, p, ps) /\ UNCHANGED <<concVars, orderVars>>
  \/ \E c \in PagingTopups :
       TopupAccount(c[1], c[2], c[3]) /\ UNCHANGED <<concVars, orderVars>>

PagingSpec == WalletInit /\ [][PagingNext]_vars

(***************************************************************************)
(* The same ledger at the grain of its lock: request threads run the calls *)
(* statement by statement, every statement between Lock/RLock and the      *)
(* deferred Unlock/RUnlock being one step.  Amounts here are positive.     *)
(***************************************************************************)
ConcTransfers ==
  { <<TestUser, "card1", "7902", 1000>>, <<"u2", "acc2", TestPhone, 400>> }

ConcTopups == { <<TestUser, "card1", 600>>, <<TestUser, "nocard", 600>> }

ConcReaders == {TestUser}

ConcAccounts == ProvisionedAccounts

ConcInit ==
  /\ ThreadsInit
  /\ OrdersNone(orders, items, oret)
  /\ accounts = ConcAccounts
  /\ profileInfo = Profiles1
  /\ transactions = [u \in {TestUser} |-> SeedTransactions(StartTime)]
  /\ dailyTopups = EmptyMap
  /\ userPhones = [u \in {TestUser} |-> TestPhone]
  /\ now = StartTime
  /\ accepted = EmptyMap
  /\ ret = Ret("none", "ok", "", 0, NoData)

\* sync.RWMutex: Lock waits for the writer and all readers to leave, RLock
\* waits for the writer only
\* RLock waits while a writer holds the mutex or waits for it
CanAcquire(m, mode) ==
  IF mode = "write" THEN m.writer = "none" /\ m.readers = {}
  ELSE m.writer = "none" /\ m.waiting = {}

Acquire(m, t, mode) ==
  IF mode = "write" THEN [m EXCEPT !.writer = t, !.waiting = @ \ {t}]
  ELSE [m EXCEPT !.readers = @ \cup {t}]

Release(m, t) ==
  [writer |-> IF m.writer = t THEN "none" ELSE m.writer,
   readers |-> m.readers \ {t}, waiting |-> m.waiting]

\* a transfer that takes the lock for reading only
TransferLockShared == "read"

\* line 226
TransferLockMode == "write"

\* a top-up that takes the lock for reading only
TopupLockShared == "read"

\* line 179
TopupLockMode == "write"

LockMode(op) ==
  IF op = "TransferMoney" THEN TransferLockMode
  ELSE IF op = "TopupAccount" THEN TopupLockMode
  ELSE "read"

FirstStep(op) ==
  IF op \in {"TransferMoney", "TopupAccount"} THEN "check" ELSE "read"

CanIssue(t) == pc[t] \in {"idle", "done"} /\ ncalls[t] < MaxCalls

Issue(t, call, next) ==
  /\ CanIssue(t)
  /\ loc' = [loc EXCEPT ![t] = call]
  /\ pc' = [pc EXCEPT ![t] = next]
  /\ ncalls' = [ncalls EXCEPT ![t] = @ + 1]
  /\ UNCHANGED <<mux, seqVars>>

IssueTransfer(t) ==
  \E c \in ConcTransfers :
    Issue(t, [Idle EXCEPT !.op = "TransferMoney", !.user = c[1], !.acct = c[2],
                          !.phone = c[3], !.amount = c[4]], "lock")

\* the day key is taken before the lock is
IssueTopup(t) ==
  \E c \in ConcTopups :
    Issue(t, [Idle EXCEPT !.op = "TopupAccount", !.user = c[1], !.acct = c[2],
                          !.amount = c[3], !.today = Day(now),
                          !.seen = DailyTotal(dailyTopups, c[1], Day(now))], "lock")

IssueGetWallet(t) ==
  \E u \in ConcReaders : Issue(t, [Idle EXCEPT !.op = "GetWallet", !.user = u], "lock")

IssueGetBackupData(t) == Issue(t, [Idle EXCEPT !.op = "GetBackupData"], "lock")

Lock(t) ==
  /\ pc[t] = "lock"
  /\ CanAcquire(mux, LockMode(loc[t].op))
  /\ mux' = Acquire(mux, t, LockMode(loc[t].op))
  /\ pc' = [pc EXCEPT ![t] = FirstStep(loc[t].op)]
  /\ UNCHANGED <<loc, ncalls, seqVars>>

Unlock(t) ==
  /\ pc[t] = "unlock"
  /\ mux' = Release(mux, t)
  /\ pc' = [pc EXCEPT ![t] = "done"]
  /\ UNCHANGED <<loc, ncalls, seqVars>>

\* a step of thread t inside its critical section
Goto(t, next, l) ==
  /\ pc' = [pc EXCEPT ![t] = next]
  /\ loc' = [loc EXCEPT ![t] = l]
  /\ UNCHANGED <<mux, ncalls, ret>>

Fail(t, err, msg) == Goto(t, "unlock", [loc[t] EXCEPT !.err = err, !.msg = msg])

dataVars == <<accounts, transactions, dailyTopups, userPhones, profileInfo, now, accepted>>

\* lines 229-270: the checks of a transfer
TransferCheck(t) ==
  LET l == loc[t] u == l.user IN
  /\ pc[t] = "check" /\ l.op = "TransferMoney"
  /\ UNCHANGED dataVars
  /\ IF ~Has(accounts, u) \/ ~Has(accounts[u], l.acct)
     THEN Fail(t, "NotFound", "sender account not found")
     ELSE IF InsufficientFunds(accounts[u][l.acct].Balance, l.amount)
     THEN Fail(t, "BadRequest", "insufficient funds")
     ELSE IF GetUserIDByPhone(profileInfo, l.phone) = {}
     THEN Fail(t, "NotFound", "recipient not found")
     ELSE \E toUser \in GetUserIDByPhone(profileInfo, l.phone) :
            IF toUser = u
            THEN Fail(t, "BadRequest", "cannot transfer to yourself")
            ELSE IF ~Has(accounts, toUser)
            THEN Fail(t, "NotFound", "recipient account not found")
            ELSE IF DOMAIN accounts[toUser] = {}
            THEN Fail(t, "NotFound", "recipient has no accounts")
            ELSE \E toAcct \in DOMAIN accounts[toUser] :
                   Goto(t, "debit", [l EXCEPT !.toUser = toUser, !.toAcct = toAcct])

\* line 273
TransferDebit(t) ==
  LET l == loc[t] IN
  /\ pc[t] = "debit"
  /\ accounts' = [accounts EXCEPT ![l.user][l.acct].Balance = Debit(@, l.amount)]
  /\ Goto(t, "credit", l)
  /\ UNCHANGED <<transactions, dailyTopups, userPhones, profileInfo, now, accepted>>

\* line 274
TransferCredit(t) ==
  LET l == loc[t] IN
  /\ pc[t] = "credit"
  /\ accounts' = [accounts EXCEPT ![l.toUser][l.toAcct].Balance = Credit(@, l.amount)]
  /\ Goto(t, "appendFrom", l)
  /\ UNCHANGED <<transactions, dailyTopups, userPhones, profileInfo, now, accepted>>

\* lines 277-289
TransferAppendFrom(t) ==
  LET l == loc[t] IN
  /\ pc[t] = "appendFrom"
  /\ transactions' = Put(transactions, l.user,
                         Append(Log(transactions, l.user),
                                FromEntry(l.amount, l.phone, now)))
  /\ Goto(t, "phone", [l EXCEPT !.time = now])
  /\ UNCHANGED <<accounts, dailyTopups, userPhones, profileInfo, now, accepted>>

\* lines 292-295: getOrCreateUserPhone
TransferPhone(t) ==
  LET l == loc[t] u == l.user cached == Has(userPhones, u) IN
  /\ pc[t] = "phone"
  /\ \E ph \in (IF cached THEN {userPhones[u]} ELSE GetProfilePhones(profileInfo, u)) :
       /\ profileInfo' = IF cached THEN profileInfo ELSE Put(profileInfo, u, ph)
       /\ IF ~cached /\ GetProfileErr(profileInfo, u)
          THEN /\ userPhones' = userPhones
               /\ Fail(t, "Internal", "failed to get sender phone")
          ELSE /\ userPhones' = Put(userPhones, u, ph)
               /\ Goto(t, "appendTo", [l EXCEPT !.sphone = ph])
  /\ UNCHANGED <<accounts, transactions, dailyTopups, now, accepted>>

\* lines 296-307
TransferAppendTo(t) ==
  LET l == loc[t] IN
  /\ pc[t] = "appendTo"
  /\ transactions' = Put(transactions, l.toUser,
                         Append(Log(transactions, l.toUser),
                                ToEntry(l.amount, l.sphone, l.time)))
  /\ Goto(t, "unlock", [l EXCEPT !.err = "ok",
                                 !.val = accounts[l.user][l.acct].Balance])
  /\ UNCHANGED <<accounts, dailyTopups, userPhones, profileInfo, now, accepted>>

\* lines 183-200: the checks of a top-up
TopupCheck(t) ==
  LET l == loc[t] u == l.user
      dt1 == IF Has(dailyTopups, u) THEN dailyTopups ELSE Put(dailyTopups, u, EmptyMap)
  IN
  /\ pc[t] = "check" /\ l.op = "TopupAccount"
  /\ dailyTopups' = dt1
  /\ IF ExceedsDailyLimit(DailyTotal(dt1, u, l.today), l.amount)
     THEN Fail(t, "BadRequest", "daily topup limit exceeded")
     ELSE IF ~Has(accounts, u) \/ ~Has(accounts[u], l.acct)
     THEN Fail(t, "NotFound", "account not found")
     ELSE Goto(t, "balance", l)
  /\ UNCHANGED <<accounts, transactions, userPhones, profileInfo, now, accepted>>

\* line 203
TopupBalance(t) ==
  LET l == loc[t] IN
  /\ pc[t] = "balance"
  /\ accounts' = [accounts EXCEPT ![l.user][l.acct].Balance = @ + l.amount]
  /\ Goto(t, "counter", l)
  /\ UNCHANGED <<transactions, dailyTopups, userPhones, profileInfo, now, accepted>>

\* line 206
TopupCounter(t) ==
  LET l == loc[t] u == l.user IN
  /\ pc[t] = "counter"
  /\ dailyTopups' = [dailyTopups EXCEPT
                       ![u] = Put(@, l.today, DailyTotal(dailyTopups, u, l.today) + l.amount)]
  /\ accepted' = Put(accepted, <<u, l.today>>, Get(accepted, <<u, l.today>>, 0) + l.amount)
  /\ Goto(t, "append", l)
  /\ UNCHANGED <<accounts, transactions, userPhones, profileInfo, now>>

\* lines 209-220
TopupAppend(t) ==
  LET l == loc[t] IN
  /\ pc[t] = "append"
  /\ transactions' = Put(transactions, l.user,
                         Append(Log(transactions, l.user),
                                Entry(l.amount, <<"topup">>, now, "")))
  /\ Goto(t, "unlock", [l EXCEPT !.err = "ok",
                                 !.val = accounts[l.user][l.acct].Balance])
  /\ UNCHANGED <<accounts, dailyTopups, userPhones, profileInfo, now, accepted>>

\* lines 104-114
ReadWallet(t) ==
  /\ pc[t] = "read" /\ loc[t].op = "GetWallet"
  /\ Goto(t, "unlock", [loc[t] EXCEPT !.err = "ok",
                                      !.snap = Get(accounts, loc[t].user, EmptyMap)])
  /\ UNCHANGED dataVars

\* lines 316-370
ReadBackup(t) ==
  /\ pc[t] = "read" /\ loc[t].op = "GetBackupData"
  /\ Goto(t, "unlock", [loc[t] EXCEPT !.err = "ok", !.snap = WalletBackup])
  /\ UNCHANGED dataVars

ConcNext ==
  \/ \E t \in Threads : IssueTransfer(t) /\ UNCHANGED <<orderVars, cmux, omux, smux, favourites>>
  \/ \E t \in Threads : IssueTopup(t) /\ UNCHANGED <<orderVars, cmux, omux, smux, favourites>>
  \/ \E t \in Threads : IssueGetWallet(t) /\ UNCHANGED <<orderVars, cmux, omux, smux, favourites>>
  \/ \E t \in Threads : IssueGetBackupData(t) /\ UNCHANGED <<orderVars, cmux, omux, smux, favourites>>
  \/ \E t \in Threads : Lock(t) /\ UNCHANGED <<orderVars, cmux, omux, smux, favourites>>
  \/ \E t \in Threads : TransferCheck(t) /\ UNCHANGED <<orderVars, cmux, omux, smux, favourites>>
  \/ \E t \in Threads : TransferDebit(t) /\ UNCHANGED <<orderVars, cmux, omux, smux, favourites>>
  \/ \E t \in Threads : TransferCredit(t) /\ UNCHANGED <<orderVars, cmux, omux, smux, favourites>>
  \/ \E t \in Threads : TransferAppendFrom(t) /\ UNCHANGED <<orderVars, cmux, omux, smux, favourites>>
  \/ \E t \in Threads : TransferPhone(t) /\ UNCHANGED <<orderVars, cmux, omux, smux, favourites>>
  \/ \E t \in Threads : TransferAppendTo(t) /\ UNCHANGED <<orderVars, cmux, omux, smux, favourites>>
  \/ \E t \in Threads : TopupCheck(t) /\ UNCHANGED <<orderVars, cmux, omux, smux, favourites>>
  \/ \E t \in Threads : TopupBalance(t) /\ UNCHANGED <<orderVars, cmux, omux, smux, favourites>>
  \/ \E t \in Threads : TopupCounter(t) /\ UNCHANGED <<orderVars, cmux, omux, smux, favourites>>
  \/ \E t \in Threads : TopupAppend(t) /\ UNCHANGED <<orderVars, cmux, omux, smux, favourites>>
  \/ \E t \in Threads : ReadWallet(t) /\ UNCHANGED <<orderVars, cmux, omux, smux, favourites>>
  \/ \E t \in Threads : ReadBackup(t) /\ UNCHANGED <<orderVars, cmux, omux, smux, favourites>>
  \/ \E t \in Threads : Unlock(t) /\ UNCHANGED <<orderVars, cmux, omux, smux, favourites>>
  \/ Tick /\ UNCHANGED <<concVars, orderVars>>

WalletConcSpec == ConcInit /\ [][ConcNext]_vars

(***************************************************************************)
(* Properties of the Wallet Ledger, one call at a time (WalletSpec).       *)
(***************************************************************************)
RECURSIVE SumOver(_, _)
SumOver(f, keys) ==
  IF keys = {} THEN 0
  ELSE LET k == CHOOSE x \in keys : TRUE
       IN f[k] + SumOver(f, keys \ {k})

AccountKeys(accs) == {<<u, a>> \in (DOMAIN accs) \X {"card1", "acc2", "sav2"} : Has(accs[u], a)}

Balance(accs, k) == accs[k[1]][k[2]].Balance

SumBalances(accs) ==
  SumOver([k \in AccountKeys(accs) |-> Balance(accs, k)], AccountKeys(accs))

IsPrefix(s, t) == Len(s) <= Len(t) /\ SubSeq(t, 1, Len(s)) = s

Last(s) == s[Len(s)]

TransferOk(r) == r.op = "TransferMoney" /\ r.err = "ok"

\* C1: the daily top-up counter of every user and day is at most 1000, and
\* so is the sum of the amounts of the top-ups accepted for that user and day.
C1_DailyCap ==
  /\ \A u \in DOMAIN dailyTopups : \A d \in DOMAIN dailyTopups[u] :
       dailyTopups[u][d] <= TopupLimit
  /\ \A k \in DOMAIN accepted : accepted[k] <= TopupLimit

\* a day filled to the cap exactly, and the next top-up turned down
C1_Witness ==
  /\ ret.op = "TopupAccount" /\ ret.msg = "daily topup limit exceeded"
  /\ \E k \in DOMAIN accepted : accepted[k] = TopupLimit

\* C2: a successful transfer of A from the caller's account X takes A from X,
\* adds A to one account of the user the phone number resolves to, leaves
\* every other account as it was, and so conserves the sum of all balances.
C2_TransferMovesMoney ==
  [][ TransferOk(ret') =>
        \A c \in AccountArgs, ph \in Phones, m \in TransferAmounts :
          TransferMoney(c[1], c[2], ph, m) =>
            \E v \in GetUserIDByPhone(profileInfo, ph) :
              /\ v # c[1] /\ Has(accounts, v)
              /\ \E b \in DOMAIN accounts[v] :
                   /\ AccountKeys(accounts') = AccountKeys(accounts)
                   /\ Balance(accounts', c) = Balance(accounts, c) - m
                   /\ Balance(accounts', <<v, b>>) = Balance(accounts, <<v, b>>) + m
                   /\ \A k \in AccountKeys(accounts) \ {c, <<v, b>>} :
                        accounts'[k[1]][k[2]] = accounts[k[1]][k[2]]
                   /\ SumBalances(accounts') = SumBalances(accounts) ]_vars

\* a transfer that was credited to the recipient's second account
C2_Witness ==
  /\ TransferOk(ret)
  /\ Has(accounts, "u2") /\ accounts["u2"]["sav2"].Balance = 500

\* C4: a TransferMoney call that returns an error leaves balances, logs,
\* daily counters and the phone cache as they were.
C4_FailedTransferChangesNothing ==
  [][ (ret'.op = "TransferMoney" /\ ret'.err # "ok") => walletState' = walletState ]_vars

\* the last of the checks turned the transfer down
C4_Witness == ret.op = "TransferMoney" /\ ret.msg = "recipient has no accounts"

\* C5: a transfer of more than the sender account holds returns BadRequest
\* and changes no account and no log: a TransferMoney step that is anything
\* else is not the step of such a transfer.
C5_NoOverdraft ==
  [][ ( /\ ret'.op = "TransferMoney"
        /\ ~(ret'.err = "BadRequest" /\ accounts' = accounts
                                      /\ transactions' = transactions) )
      => \A c \in AccountArgs, ph \in Phones, m \in TransferAmounts :
           ~( /\ Has(accounts, c[1]) /\ Has(accounts[c[1]], c[2])
              /\ m > Balance(accounts, c)
              /\ TransferMoney(c[1], c[2], ph, m) ) ]_vars

C5_Witness == ret.op = "TransferMoney" /\ ret.msg = "insufficient funds"

\* C6: every account balance is non-negative in every reachable state.
C6_BalancesNonNegative ==
  \A k \in AccountKeys(accounts) : Balance(accounts, k) >= 0

\* C8: a successful transfer of A appends one entry -A at the end of the
\* sender's log and one entry +A at the end of the recipient's log, with one
\* timestamp, and changes no other log.
C8_TwoEntries ==
  [][ TransferOk(ret') =>
        \A c \in AccountArgs, ph \in Phones, m \in TransferAmounts :
          TransferMoney(c[1], c[2], ph, m) =>
            \E v \in GetUserIDByPhone(profileInfo, ph) :
              LET from == transactions'[c[1]]
                  to == transactions'[v]
              IN /\ v # c[1]
                 /\ DOMAIN transactions' = DOMAIN transactions \cup {c[1], v}
                 /\ from = Append(Log(transactions, c[1]), Last(from))
                 /\ to = Append(Log(transactions, v), Last(to))
                 /\ Last(from).Amount = 0 - m /\ Last(to).Amount = m
                 /\ Last(from).Time = Last(to).Time
                 /\ \A w \in DOMAIN transactions \ {c[1], v} :
                      transactions'[w] = transactions[w] ]_vars

\* both entries of a transfer of 500 out of the seeded card are in place
C8_Witness ==
  /\ TransferOk(ret)
  /\ Last(transactions[TestUser]).Amount = -500
  /\ Has(transactions, "u2") /\ Last(transactions["u2"]).Amount = 500

\* C9: every user's stored log is append-only: after any step it has the log
\* before the step as a prefix.
C9_LogsAppendOnly ==
  [][ \A u \in DOMAIN transactions :
        Has(transactions', u) /\ IsPrefix(transactions[u], transactions'[u]) ]_vars

(***************************************************************************)
(* Orders and the cart (OrderService, Cart)                                *)
(***************************************************************************)
\* total orders over all users
MaxOrders == 2
\* total quantity over all carts
MaxCartItems == 1
\* number of clock advances while orders are handled
MaxOrderTicks == 3
\* total quantity over all carts when only the cart is exercised
MaxCartQuantity == 3
\* quantity of a line in the carts GetCart is read from
MaxViewQuantity == 3

DeliveryTime == 10

DeliveryPrice == 150

\* time.Time{}: what CreatedAt holds in an order read from orders.json
ZeroTime == 0

OrderUsers == {TestUser, "u2"}

\* the users who fill a cart
CartUsers == {TestUser}

ProductArgs == {"p1", "p2", "px"}

AddressArgs == {"a1", "ax"}

\* the product index: p1 and p3 can be ordered, p2 is not available
Catalog ==
  [p \in {"p1", "p2", "p3"} |->
     IF p = "p1" THEN [Price |-> 100, Available |-> TRUE]
     ELSE IF p = "p2" THEN [Price |-> 40, Available |-> FALSE]
     ELSE [Price |-> 25, Available |-> TRUE]]

\* the addresses each user has saved
Addresses == [u \in OrderUsers |-> {"a1"}]

\* formatRu: day and month, hour and minute; the year is dropped
FormatRu(t) == << (t \div DayLen) % 365, (t % DayLen) \div 60, t % 60 >>

NoDate == << >>

Order(id, status, date, createdAt, its, cart, addr) ==
  [ID |-> id, Status |-> status, DeliveryDate |-> date, CreatedAt |-> createdAt,
   Items |-> its, OrderPrice |-> cart.OrderPrice, DeliveryPrice |-> cart.DeliveryPrice,
   TotalPrice |-> cart.TotalPrice, TotalItems |-> cart.TotalItems, Address |-> addr]

NoCart == [OrderPrice |-> 0, DeliveryPrice |-> DeliveryPrice, TotalPrice |-> DeliveryPrice,
           TotalItems |-> 0, Items |-> << >>]

\* orders.json as the last run left it: an order still active, its
\* creation time not in the file
RestoredOrders ==
  [u \in {"u2"} |->
     << Order(1, "active", NoDate, ZeroTime,
              << [ID |-> "p1", Price |-> 100, Quantity |-> 1] >>,
              [NoCart EXCEPT !.OrderPrice = 100, !.TotalPrice = 250, !.TotalItems = 1],
              "a1") >>]

OrderRet(op, u, err, val) == [op |-> op, err |-> err, val |-> val]

OrderInit ==
  /\ ThreadsInit
  /\ accounts = SeedAccounts
  /\ profileInfo = Profiles1
  /\ transactions = [u \in {TestUser} |-> SeedTransactions(StartTime)]
  /\ dailyTopups = EmptyMap
  /\ userPhones = [u \in {TestUser} |-> TestPhone]
  /\ accepted = EmptyMap
  /\ ret = Ret("none", "ok", "", 0, NoData)
  /\ now = StartTime
  /\ orders \in {EmptyMap, RestoredOrders}
  /\ items = EmptyMap
  /\ oret = OrderRet("none", "", "ok", NoData)

RECURSIVE CountOrders(_, _)
CountOrders(os, us) ==
  IF us = {} THEN 0
  ELSE LET u == CHOOSE x \in us : TRUE
       IN Len(os[u]) + CountOrders(os, us \ {u})

TotalOrders(os) == CountOrders(os, DOMAIN os)

RECURSIVE Arrangements(_)
\* the orders in which a range over a map can visit the keys
Arrangements(keys) ==
  IF keys = {} THEN { << >> }
  ELSE UNION { { <<k>> \o r : r \in Arrangements(keys \ {k}) } : k \in keys }

\* a price total that counts each line once, whatever its quantity
RECURSIVE SumPricePerLine(_)
SumPricePerLine(s) ==
  IF s = << >> THEN 0 ELSE Head(s).Price + SumPricePerLine(Tail(s))

\* GetCart, lines 56-59: the totals over the available items
RECURSIVE SumPrice(_)
SumPrice(s) ==
  IF s = << >> THEN 0 ELSE Head(s).Price * Head(s).Quantity + SumPrice(Tail(s))

RECURSIVE SumQuantity(_)
SumQuantity(s) == IF s = << >> THEN 0 ELSE Head(s).Quantity + SumQuantity(Tail(s))

\* a catalog that claims to hold every product
ProductExistsAlways(p) == TRUE

ProductExists(p) == p \in DOMAIN Catalog

\* a line that names one product whatever key it is stored under
CartItemMiskeyed(p, q) == [ProductID |-> "p1", Quantity |-> q]

\* models.CartItem, as the cart stores it under a product id
CartItem(p, q) == [ProductID |-> p, Quantity |-> q]

RECURSIVE CartSize(_, _)
CartSize(cart, ps) ==
  IF ps = {} THEN 0
  ELSE LET p == CHOOSE x \in ps : TRUE
       IN cart[p].Quantity + CartSize(cart, ps \ {p})

RECURSIVE CartsSize(_, _)
CartsSize(its, us) ==
  IF us = {} THEN 0
  ELSE LET u == CHOOSE x \in us : TRUE
       IN CartSize(its[u], DOMAIN its[u]) + CartsSize(its, us \ {u})

CartTotal(its) == CartsSize(its, DOMAIN its)

\* a response item that calls every product available
CartResponseItemAvailable(p, q) ==
  [ProductID |-> p, Quantity |-> q, Price |-> Catalog[p].Price, Available |-> TRUE]

\* getCartResponseItem, for a product the index holds
CartResponseItem(p, q) ==
  [ProductID |-> p, Quantity |-> q, Price |-> Catalog[p].Price,
   Available |-> Catalog[p].Available]

\* GetCart: every response the iteration over the cart can build; items
\* whose product is unknown are skipped, totals count available items only
GetCart(u) ==
  LET cart == Get(items, u, EmptyMap)
      known == {p \in DOMAIN cart : ProductExists(cart[p].ProductID)}
  IN { LET its == [i \in 1..Len(ps) |->
                     CartResponseItem(cart[ps[i]].ProductID, cart[ps[i]].Quantity)]
           avail == SelectSeq(its, LAMBDA it : it.Available)
           price == SumPrice(avail)
       IN [OrderPrice |-> price, DeliveryPrice |-> DeliveryPrice,
           TotalPrice |-> DeliveryPrice + price,
           TotalItems |-> SumQuantity(avail),
           Items |-> its]
       : ps \in Arrangements(known) }

walletVars == <<accounts, transactions, dailyTopups, userPhones, profileInfo,
                accepted, ret>>

\* a failure that has emptied the caller's cart on its way out
OrderFailClearing(op, u, err) ==
  /\ oret' = OrderRet(op, u, err, NoData)
  /\ items' = [x \in DOMAIN items \ {u} |-> items[x]]
  /\ UNCHANGED orders

OrderFail(op, u, err) ==
  /\ oret' = OrderRet(op, u, err, NoData)
  /\ UNCHANGED <<orders, items>>

ReadCart(u) ==
  /\ \E cart \in GetCart(u) : oret' = OrderRet("GetCart", u, "ok", cart)
  /\ UNCHANGED <<orders, items>>

\* room for one more unit in the carts, where the call would add one
Room(p, max) == ProductExists(p) => CartTotal(items) < max

AddItem(u, p) ==
  IF ~ProductExists(p) THEN OrderFail("AddItem", u, "NotFound")
  ELSE LET cart == Get(items, u, EmptyMap)
           q == IF Has(cart, p) THEN cart[p].Quantity + 1 ELSE 1
       IN /\ items' = Put(items, u, Put(cart, p, CartItem(p, q)))
          /\ oret' = OrderRet("AddItem", u, "ok", q)
          /\ UNCHANGED orders

\* a line that keeps a unit too few
GoneBelowZero(q) == q < 0

\* the quantity at which RemoveItem deletes the line
Gone(q) == q <= 0

RemoveItem(u, p) ==
  IF ~ProductExists(p) THEN OrderFail("RemoveItem", u, "NotFound")
  ELSE LET cart == Get(items, u, EmptyMap)
           q == IF Has(cart, p) THEN cart[p].Quantity - 1 ELSE 0
           left == IF ~Has(cart, p) THEN cart
                   ELSE IF Gone(q) THEN [x \in DOMAIN cart \ {p} |-> cart[x]]
                   ELSE Put(cart, p, [cart[p] EXCEPT !.Quantity = q])
       IN /\ items' = Put(items, u, left)
          /\ oret' = OrderRet("RemoveItem", u, "ok", IF Has(left, p) THEN q ELSE 0)
          /\ UNCHANGED orders

\* a ClearCart that leaves the cart as it is
ClearedNothing(its, u) == its

Cleared(its, u) == [x \in DOMAIN its \ {u} |-> its[x]]

ClearCart(u) ==
  /\ items' = Cleared(items, u)
  /\ oret' = OrderRet("ClearCart", u, "ok", NoData)
  /\ UNCHANGED orders

\* the id a new order gets: one no order has yet
NewID(os) == TotalOrders(os) + 1

\* the lines of an order made of the available items of a cart response
OrderedItems(cart) ==
  LET avail == SelectSeq(cart.Items, LAMBDA it : it.Available)
  IN [i \in 1..Len(avail) |->
        [ID |-> avail[i].ProductID, Price |-> avail[i].Price,
         Quantity |-> avail[i].Quantity]]

\* a ledger that starts the user's list anew with every order
AppendOrderAfresh(os, u, o) == Put(os, u, << o >>)

\* lines 119-123: the user's list made when missing, the order appended
AppendOrder(os, u, o) == Put(os, u, Append(Get(os, u, << >>), o))

MakeNewOrder(u, addr) ==
  IF addr \notin Addresses[u] THEN OrderFail("MakeNewOrder", u, "NotFound")
  ELSE \E cart \in GetCart(u) :
         LET avail == SelectSeq(cart.Items, LAMBDA it : it.Available)
             its == [i \in 1..Len(avail) |->
                       [ID |-> avail[i].ProductID, Price |-> avail[i].Price,
                        Quantity |-> avail[i].Quantity]]
         IN IF Len(its) = 0 THEN OrderFail("MakeNewOrder", u, "BadRequest")
            ELSE /\ TotalOrders(orders) < MaxOrders
                 /\ items' = Cleared(items, u)
                 /\ orders' = AppendOrder(orders, u,
                                          Order(NewID(orders), "active", NoDate, now,
                                                its, cart, addr))
                 /\ oret' = OrderRet("MakeNewOrder", u, "ok", NoData)

\* a delivery check that forgets the delivery time
DueAtOnce(createdAt, t) == createdAt < t

\* CreatedAt.Add(DeliveryTime).Before(time.Now())
IsDue(createdAt, t) == createdAt + DeliveryTime < t

\* a completion that restamps the order with the time of the listing
DeliveredRestamped(o, t) ==
  IF o.Status = "active" /\ IsDue(o.CreatedAt, t)
  THEN [o EXCEPT !.Status = "completed", !.CreatedAt = t,
                 !.DeliveryDate = FormatRu(o.CreatedAt + DeliveryTime)]
  ELSE o

Delivered(o, t) ==
  IF o.Status = "active" /\ IsDue(o.CreatedAt, t)
  THEN [o EXCEPT !.Status = "completed",
                 !.DeliveryDate = FormatRu(o.CreatedAt + DeliveryTime)]
  ELSE o

\* a listing left in the order of the ledger
Unreversed(s) == s

Reverse(s) == [i \in 1..Len(s) |-> s[Len(s) + 1 - i]]

GetOrders(u) ==
  IF ~Has(orders, u)
  THEN /\ oret' = OrderRet("GetOrders", u, "ok", << >>)
       /\ UNCHANGED <<orders, items>>
  ELSE LET listed == [i \in 1..Len(orders[u]) |-> Delivered(orders[u][i], now)]
       IN /\ orders' = [orders EXCEPT ![u] = listed]
          /\ oret' = OrderRet("GetOrders", u, "ok", Reverse(listed))
          /\ UNCHANGED items

OrderGetBackupData ==
  /\ oret' = OrderRet("GetBackupData", "", "ok", orders)
  /\ UNCHANGED <<orders, items>>

OrderTick ==
  /\ now + TickStep <= StartTime + TickStep * MaxOrderTicks
  /\ now' = now + TickStep
  /\ UNCHANGED orderVars

OrderNext ==
  \/ \E u \in CartUsers, p \in ProductArgs :
       Room(p, MaxCartItems) /\ AddItem(u, p) /\ UNCHANGED <<now, walletVars, concVars>>
  \/ \E u \in CartUsers, p \in ProductArgs :
       RemoveItem(u, p) /\ UNCHANGED <<now, walletVars, concVars>>
  \/ \E u \in CartUsers : ClearCart(u) /\ UNCHANGED <<now, walletVars, concVars>>
  \/ \E u \in CartUsers : ReadCart(u) /\ UNCHANGED <<now, walletVars, concVars>>
  \/ \E u \in OrderUsers, a \in AddressArgs :
       MakeNewOrder(u, a) /\ UNCHANGED <<now, walletVars, concVars>>
  \/ \E u \in OrderUsers : GetOrders(u) /\ UNCHANGED <<now, walletVars, concVars>>
  \/ OrderGetBackupData /\ UNCHANGED <<now, walletVars, concVars>>
  \/ OrderTick /\ UNCHANGED <<walletVars, concVars>>

OrderSpec == OrderInit /\ [][OrderNext]_vars

(***************************************************************************)
(* The cart on its own, calls one at a time, from an empty store           *)
(***************************************************************************)
CartInit == OrderInit /\ orders = EmptyMap

CartNext ==
  \/ \E u \in OrderUsers, p \in ProductArgs :
       /\ Room(p, MaxCartQuantity) /\ AddItem(u, p)
       /\ UNCHANGED <<now, walletVars, concVars>>
  \/ \E u \in OrderUsers, p \in ProductArgs :
       RemoveItem(u, p) /\ UNCHANGED <<now, walletVars, concVars>>
  \/ \E u \in OrderUsers : ClearCart(u) /\ UNCHANGED <<now, walletVars, concVars>>
  \/ \E u \in OrderUsers : ReadCart(u) /\ UNCHANGED <<now, walletVars, concVars>>

CartSpec == CartInit /\ [][CartNext]_vars

(***************************************************************************)
(* GetCart over the carts a store can hold, lines of products the catalog  *)
(* does not know included (a cart loaded at startup)                       *)
(***************************************************************************)
ViewCarts ==
  UNION { [ps -> 1..MaxViewQuantity] : ps \in SUBSET ProductArgs }

CartViewInit ==
  /\ ThreadsInit
  /\ accounts = SeedAccounts
  /\ profileInfo = Profiles1
  /\ transactions = [u \in {TestUser} |-> SeedTransactions(StartTime)]
  /\ dailyTopups = EmptyMap
  /\ userPhones = [u \in {TestUser} |-> TestPhone]
  /\ accepted = EmptyMap
  /\ ret = Ret("none", "ok", "", 0, NoData)
  /\ now = StartTime
  /\ orders = EmptyMap
  /\ \E qs \in ViewCarts :
       items = [u \in {TestUser} |-> [p \in DOMAIN qs |-> CartItem(p, qs[p])]]
  /\ oret = OrderRet("none", "", "ok", NoData)

CartViewNext ==
  \E u \in OrderUsers : ReadCart(u) /\ UNCHANGED <<now, walletVars, concVars>>

CartViewSpec == CartViewInit /\ [][CartViewNext]_vars

(***************************************************************************)
(* Request threads in the cart, the orders and the transaction listing,    *)
(* one step per lock operation and per statement under a lock              *)
(***************************************************************************)
\* the cart the threads find
ConcCart == [u \in {TestUser} |-> [p \in {"p1"} |-> CartItem("p1", 1)]]

ConcOrderCalls ==
  {[op |-> "AddItem", user |-> TestUser, arg |-> "p1"],
   [op |-> "AddItem", user |-> TestUser, arg |-> "px"],
   [op |-> "GetCart", user |-> TestUser, arg |-> ""],
   [op |-> "MakeNewOrder", user |-> TestUser, arg |-> "a1"],
   [op |-> "MakeNewOrder", user |-> TestUser, arg |-> "ax"],
   [op |-> "GetOrders", user |-> TestUser, arg |-> ""],
   [op |-> "GetOrders", user |-> "u2", arg |-> ""],
   [op |-> "GetTransactions", user |-> TestUser, arg |-> ""]}

ServiceConcInit ==
  /\ ThreadsInit
  /\ accounts = SeedAccounts
  /\ profileInfo = Profiles1
  /\ transactions = [u \in {TestUser} |-> SeedTransactions(StartTime)]
  /\ dailyTopups = EmptyMap
  /\ userPhones = [u \in {TestUser} |-> TestPhone]
  /\ accepted = EmptyMap
  /\ ret = Ret("none", "ok", "", 0, NoData)
  /\ now = StartTime
  /\ orders = RestoredOrders
  /\ items = ConcCart
  /\ oret = OrderRet("none", "", "ok", NoData)

\* an AddItem that takes the cart lock for reading only
AddLockShared == "read"

\* cart.go line 79
AddLockMode == "write"

\* where a call starts: the checks made before any lock of its own service
FirstOrderStep(op) ==
  IF op \in {"AddItem", "MakeNewOrder"} THEN "enter"
  ELSE IF op = "GetCart" THEN "c_lock"
  ELSE IF op = "GetOrders" THEN "g_lock"
  ELSE "lock"

IssueOrderCall(t) ==
  \E c \in ConcOrderCalls :
    Issue(t, [Idle EXCEPT !.op = c.op, !.user = c.user, !.arg = c.arg],
          FirstOrderStep(c.op))

\* a step of thread t in the cart or the orders
OStep(t, next, l) ==
  /\ pc' = [pc EXCEPT ![t] = next]
  /\ loc' = [loc EXCEPT ![t] = l]
  /\ UNCHANGED <<mux, ncalls, seqVars, oret>>

\* AddItem: ProductExists; MakeNewOrder: GetAddressByID
Enter(t) ==
  /\ pc[t] = "enter"
  /\ LET l == loc[t]
         found == IF l.op = "AddItem" THEN ProductExists(l.arg)
                  ELSE l.arg \in Addresses[l.user]
     IN IF ~found THEN OStep(t, "done", [l EXCEPT !.err = "NotFound"])
        ELSE OStep(t, IF l.op = "AddItem" THEN "a_lock" ELSE "c_lock", l)
  /\ UNCHANGED <<orders, items, cmux, omux, smux, favourites>>

\* the mutex a lock statement takes, how, and the statement it guards
LockPlan(at) ==
  IF at = "a_lock" THEN [which |-> "cart", mode |-> AddLockMode, next |-> "a_read"]
  ELSE IF at = "c_lock" THEN [which |-> "cart", mode |-> "read", next |-> "c_read"]
  ELSE IF at = "x_lock" THEN [which |-> "cart", mode |-> "write", next |-> "x_clear"]
  ELSE IF at = "o_lock" THEN [which |-> "orders", mode |-> "write", next |-> "o_append"]
  ELSE [which |-> "orders", mode |-> "read", next |-> "g_flip"]

OLock(t) ==
  /\ pc[t] \in {"a_lock", "c_lock", "x_lock", "o_lock", "g_lock"}
  /\ LET p == LockPlan(pc[t])
     IN /\ IF p.which = "cart"
           THEN /\ CanAcquire(cmux, p.mode)
                /\ cmux' = Acquire(cmux, t, p.mode)
                /\ UNCHANGED <<omux, smux, favourites>>
           ELSE /\ CanAcquire(omux, p.mode)
                /\ omux' = Acquire(omux, t, p.mode)
                /\ UNCHANGED <<cmux, smux, favourites>>
        /\ OStep(t, p.next, loc[t])
  /\ UNCHANGED <<orders, items>>

\* the deferred unlock of a call, and where the caller goes on
OUnlock(t) ==
  /\ pc[t] \in {"a_unlock", "c_unlock", "x_unlock", "o_unlock", "g_unlock"}
  /\ IF pc[t] \in {"a_unlock", "c_unlock", "x_unlock"}
     THEN cmux' = Release(cmux, t) /\ UNCHANGED <<omux, smux, favourites>>
     ELSE omux' = Release(omux, t) /\ UNCHANGED <<cmux, smux, favourites>>
  /\ LET l == loc[t]
         ok == [l EXCEPT !.err = "ok"]
     IN IF pc[t] = "x_unlock" THEN OStep(t, "o_new", l)
        ELSE IF pc[t] = "c_unlock" /\ l.op = "MakeNewOrder"
        THEN IF OrderedItems(l.cart) = << >>
             THEN OStep(t, "done", [l EXCEPT !.err = "BadRequest"])
             ELSE OStep(t, "x_lock", l)
        ELSE OStep(t, "done", ok)
  /\ UNCHANGED <<orders, items>>

\* AddItem, lines 83-97: the quantity the line has
AddRead(t) ==
  /\ pc[t] = "a_read"
  /\ LET cart == Get(items, loc[t].user, EmptyMap)
         q == IF Has(cart, loc[t].arg) THEN cart[loc[t].arg].Quantity ELSE 0
     IN OStep(t, "a_write", [loc[t] EXCEPT !.seen = q])
  /\ UNCHANGED <<orders, items, cmux, omux, smux, favourites>>

\* AddItem, lines 83-97: the line created or incremented, and the return
AddWrite(t) ==
  /\ pc[t] = "a_write"
  /\ LET l == loc[t]
         cart == Get(items, l.user, EmptyMap)
     IN /\ items' = Put(items, l.user, Put(cart, l.arg, CartItem(l.arg, l.seen + 1)))
        /\ OStep(t, "a_unlock", [l EXCEPT !.val = l.seen + 1])
  /\ UNCHANGED <<orders, cmux, omux, smux, favourites>>

\* GetCart under the read lock of the cart
CartRead(t) ==
  /\ pc[t] = "c_read"
  /\ \E cart \in GetCart(loc[t].user) :
       OStep(t, "c_unlock", [loc[t] EXCEPT !.cart = cart])
  /\ UNCHANGED <<orders, items, cmux, omux, smux, favourites>>

\* ClearCart under the write lock of the cart
CartClear(t) ==
  /\ pc[t] = "x_clear"
  /\ items' = Cleared(items, loc[t].user)
  /\ OStep(t, "x_unlock", loc[t])
  /\ UNCHANGED <<orders, cmux, omux, smux, favourites>>

\* MakeNewOrder, lines 104-114: the order built, with the time read
OrderNew(t) ==
  /\ pc[t] = "o_new"
  /\ OStep(t, "o_lock", [loc[t] EXCEPT !.time = now])
  /\ UNCHANGED <<orders, items, cmux, omux, smux, favourites>>

\* MakeNewOrder, lines 119-123
OrderAppend(t) ==
  /\ pc[t] = "o_append"
  /\ LET l == loc[t]
     IN orders' = AppendOrder(orders, l.user,
                              Order(NewID(orders), "active", NoDate, l.time,
                                    OrderedItems(l.cart), l.cart, l.arg))
  /\ OStep(t, "o_unlock", loc[t])
  /\ UNCHANGED <<items, cmux, omux, smux, favourites>>

\* GetOrders, lines 48-63: the loop over the user's orders
ListOrders(t) ==
  /\ pc[t] = "g_flip"
  /\ LET u == loc[t].user
     IN IF ~Has(orders, u)
        THEN OStep(t, "g_unlock", [loc[t] EXCEPT !.val = << >>]) /\ UNCHANGED orders
        ELSE LET listed == [i \in 1..Len(orders[u]) |-> Delivered(orders[u][i], now)]
             IN /\ orders' = [orders EXCEPT ![u] = listed]
                /\ OStep(t, "g_unlock", [loc[t] EXCEPT !.val = Reverse(listed)])
  /\ UNCHANGED <<items, cmux, omux, smux, favourites>>

\* GetTransactions, lines 123-170, under the read lock taken at 120
ListTransactions(t) ==
  /\ pc[t] = "read" /\ loc[t].op = "GetTransactions"
  /\ \E p \in Pages, ps \in PageSizes : GetTransactions(loc[t].user, p, ps)
  /\ pc' = [pc EXCEPT ![t] = "unlock"]
  /\ UNCHANGED <<loc, mux, ncalls, orderVars, cmux, omux, smux, favourites>>

ServiceConcNext ==
  \/ \E t \in Threads : IssueOrderCall(t) /\ UNCHANGED <<orderVars, cmux, omux, smux, favourites>>
  \/ \E t \in Threads : Enter(t)
  \/ \E t \in Threads : OLock(t)
  \/ \E t \in Threads : AddRead(t)
  \/ \E t \in Threads : AddWrite(t)
  \/ \E t \in Threads : CartRead(t)
  \/ \E t \in Threads : CartClear(t)
  \/ \E t \in Threads : OrderNew(t)
  \/ \E t \in Threads : OrderAppend(t)
  \/ \E t \in Threads : ListOrders(t)
  \/ \E t \in Threads : OUnlock(t)
  \/ \E t \in Threads : Lock(t) /\ UNCHANGED <<orderVars, cmux, omux, smux, favourites>>
  \/ \E t \in Threads : ListTransactions(t)
  \/ \E t \in Threads : Unlock(t) /\ UNCHANGED <<orderVars, cmux, omux, smux, favourites>>
  \/ Tick /\ UNCHANGED <<concVars, orderVars>>

ServiceConcSpec == ServiceConcInit /\ [][ServiceConcNext]_vars

(***************************************************************************)
(* Claims about the ledger under concurrent request threads                *)
(***************************************************************************)
EntryKeys(txs) == UNION { {<<u, i>> : i \in 1..Len(txs[u])} : u \in DOMAIN txs }

\* the money on the accounts minus the money the logs account for
LedgerGap(accs, txs) ==
  SumBalances(accs)
    - SumOver([k \in EntryKeys(txs) |-> txs[k[1]][k[2]].Amount], EntryKeys(txs))

\* thread t has debited the sender and not yet appended the second entry
HalfApplied(t) ==
  loc[t].op = "TransferMoney" /\ pc[t] \in {"credit", "appendFrom", "phone", "appendTo"}

\* thread t is between taking the lock and releasing it
InsideLock(t) == pc[t] \notin {"idle", "lock", "done"}

\* C3: under every interleaving of TransferMoney, TopupAccount, GetWallet and
\* GetBackupData a transfer is indivisible: while a transfer is half applied
\* no other call is inside the ledger, every backup snapshot balances
\* against the logs exactly as the ledger did at construction, the funds
\* check still holds when the debit is made, and no balance is overdrawn by
\* two transfers that each passed the check
C3_TransferIndivisible ==
  /\ \A t \in Threads, o \in Threads : t # o /\ HalfApplied(t) => ~InsideLock(o)
  /\ \A t \in Threads :
       loc[t].op = "GetBackupData" /\ loc[t].err = "ok"
         => LedgerGap(loc[t].snap.Accounts, loc[t].snap.Transactions)
              = LedgerGap(ConcAccounts, [u \in {TestUser} |-> SeedTransactions(StartTime)])
  /\ \A t \in Threads :
       pc[t] = "debit" => accounts[loc[t].user][loc[t].acct].Balance >= loc[t].amount
  /\ \A k \in AccountKeys(accounts) : Balance(accounts, k) >= 0

\* two transfers of 1000 out of the card holding 1500: one went through,
\* the other was refused
C3_Witness ==
  \E t \in Threads, o \in Threads :
    /\ t # o /\ pc[t] = "done" /\ pc[o] = "done"
    /\ loc[t].op = "TransferMoney" /\ loc[o].op = "TransferMoney"
    /\ loc[t].user = loc[o].user /\ loc[t].acct = loc[o].acct
    /\ loc[t].err = "ok" /\ loc[t].val = 500
    /\ loc[o].msg = "insufficient funds"

\* C7: two top-ups of 600 by one user, both issued on the same day while
\* its counter was 0, end with exactly one success and one BadRequest; and
\* between a top-up's check and its last update no other call is inside the
\* ledger and the checked total still fits the cap
C7_ConcurrentTopups ==
  /\ \A t \in Threads, o \in Threads :
       ( /\ t # o /\ pc[t] = "done" /\ pc[o] = "done"
         /\ loc[t].op = "TopupAccount" /\ loc[o].op = "TopupAccount"
         /\ loc[t].user = loc[o].user /\ loc[t].today = loc[o].today
         /\ loc[t].amount = 600 /\ loc[o].amount = 600
         /\ loc[t].seen = 0 /\ loc[o].seen = 0
         /\ Has(accounts[loc[t].user], loc[t].acct)
         /\ Has(accounts[loc[o].user], loc[o].acct) )
       => {loc[t].err, loc[o].err} = {"ok", "BadRequest"}
  /\ \A t \in Threads :
       loc[t].op = "TopupAccount" /\ pc[t] \in {"balance", "counter", "append"}
         => /\ \A o \in Threads \ {t} : ~InsideLock(o)
            /\ pc[t] # "append"
                 => DailyTotal(dailyTopups, loc[t].user, loc[t].today) + loc[t].amount
                      <= TopupLimit

\* both top-ups were issued against a counter of 0 and have returned
C7_Witness ==
  \E t \in Threads, o \in Threads :
    /\ t # o /\ pc[t] = "done" /\ pc[o] = "done"
    /\ loc[t].op = "TopupAccount" /\ loc[o].op = "TopupAccount"
    /\ loc[t].acct = "card1" /\ loc[o].acct = "card1"
    /\ loc[t].today = loc[o].today
    /\ loc[t].seen = 0 /\ loc[o].seen = 0
    /\ loc[t].err = "ok" /\ loc[o].err = "BadRequest"

(***************************************************************************)
(* Claims about orders                                                     *)
(***************************************************************************)
\* what a GetOrders call of user u must hand back for the stored order o,
\* listed at time t, as the entry r
ListedRight(o, r, t) ==
  /\ r.ID = o.ID /\ r.CreatedAt = o.CreatedAt
  /\ (o.Status = "active" /\ t < o.CreatedAt + DeliveryTime
        => r.Status = "active" /\ r.DeliveryDate = NoDate)
  /\ (t > o.CreatedAt + DeliveryTime
        => r.Status = "completed" /\ r.DeliveryDate # NoDate)
  /\ (o.Status = "completed"
        => r.Status = "completed" /\ r.DeliveryDate = o.DeliveryDate)
  /\ (o.Status = "active" /\ r.Status = "completed"
        => r.DeliveryDate = FormatRu(o.CreatedAt + DeliveryTime))

\* C10: a GetOrders call before T+D returns the order as active, a call
\* after T+D returns it completed with a non-empty delivery date, and a
\* call on an order already completed returns the status and the date it
\* has; the date set is the formatted T+D whenever the listing happens;
\* what the call returns is what the ledger then holds
C10_OrderLifecycle ==
  [][\A u \in OrderUsers :
       oret'.op = "GetOrders" /\ Has(orders, u) /\ GetOrders(u)
         => /\ oret'.val = Reverse(orders'[u])
            /\ Len(orders'[u]) = Len(orders[u])
            /\ \A i \in 1..Len(orders[u]) :
                 ListedRight(orders[u][i], oret'.val[Len(orders[u]) + 1 - i], now)]_vars

\* a listing that returns an order placed ten minutes before an order
\* still under way: the first completed with its date, the second active
C10_Witness ==
  /\ oret.op = "GetOrders"
  /\ Len(oret.val) = 2
  /\ oret.val[1].Status = "active" /\ now < oret.val[1].CreatedAt + DeliveryTime
  /\ oret.val[2].Status = "completed" /\ oret.val[2].CreatedAt >= StartTime
  /\ now > oret.val[2].CreatedAt + DeliveryTime
  /\ oret.val[2].DeliveryDate = FormatRu(oret.val[2].CreatedAt + DeliveryTime)

\* C11: a GetOrders call turns an active order into a completed one exactly
\* when the time of the call is at or past CreatedAt + DeliveryTime, the
\* instant of equality included, and leaves it active before that
C11_FlipsAtDeadline ==
  [][\A u \in OrderUsers :
       oret'.op = "GetOrders" /\ Has(orders, u) /\ GetOrders(u)
         => \A i \in 1..Len(orders[u]) :
              orders[u][i].Status = "active"
                => (orders'[u][i].Status = "completed"
                      <=> now >= orders[u][i].CreatedAt + DeliveryTime)]_vars

\* the fields of an order that no call may change
Fixed(o) ==
  [ID |-> o.ID, Address |-> o.Address, OrderPrice |-> o.OrderPrice,
   DeliveryPrice |-> o.DeliveryPrice, TotalPrice |-> o.TotalPrice,
   TotalItems |-> o.TotalItems, Items |-> o.Items, CreatedAt |-> o.CreatedAt]

\* C12: whatever MakeNewOrder and GetOrders calls follow, an order once in
\* the ledger is never removed and keeps its place, its status only ever
\* goes from active to completed, and its id, address, prices, item count,
\* items and creation time never change
C12_OrdersOnlyComplete ==
  [][\A u \in DOMAIN orders :
       /\ Has(orders', u)
       /\ Len(orders'[u]) >= Len(orders[u])
       /\ \A i \in 1..Len(orders[u]) :
            /\ Fixed(orders'[u][i]) = Fixed(orders[u][i])
            /\ orders'[u][i].Status \in {orders[u][i].Status, "completed"}]_vars

\* an order placed, completed by a listing, and still in its place, unchanged
\* but for status and date, after the same user placed a second order
C12_Witness ==
  \E u \in DOMAIN orders :
    /\ oret.op = "MakeNewOrder" /\ oret.err = "ok"
    /\ Len(orders[u]) = 2
    /\ orders[u][1].Status = "completed" /\ orders[u][1].CreatedAt >= StartTime
    /\ orders[u][1].DeliveryDate = FormatRu(orders[u][1].CreatedAt + DeliveryTime)
    /\ orders[u][2].Status = "active" /\ orders[u][2].ID # orders[u][1].ID

\* C14: a MakeNewOrder call that fails (address not found, cart not
\* fetched, no available item: BadRequest) leaves every cart with the lines
\* it had and appends no order
C14_FailedOrderChangesNothing ==
  [][\A u \in OrderUsers, a \in AddressArgs :
       oret'.op = "MakeNewOrder" /\ oret'.err # "ok" /\ MakeNewOrder(u, a)
         => items' = items /\ orders' = orders]_vars

\* a checkout refused with BadRequest while the caller's cart holds a line,
\* of a product that is not available
C14_Witness ==
  /\ oret.op = "MakeNewOrder" /\ oret.err = "BadRequest"
  /\ \E u \in DOMAIN items : \E p \in DOMAIN items[u] :
       items[u][p].Quantity >= 1 /\ ~Catalog[items[u][p].ProductID].Available

\* the ids of all orders in the ledger
OrderIDs(os) == UNION { {os[u][i].ID : i \in 1..Len(os[u])} : u \in DOMAIN os }

\* C16: a successful MakeNewOrder leaves the caller's cart without lines
\* and appends exactly one order at the end of the caller's list: active,
\* with an id no other order has, the address asked for, the totals of the
\* cart as it was, and the available items of that cart as its items
C16_CheckoutPlacesOrder ==
  [][\A u \in OrderUsers, a \in AddressArgs :
       oret'.op = "MakeNewOrder" /\ oret'.err = "ok" /\ MakeNewOrder(u, a)
         => /\ Get(items', u, EmptyMap) = EmptyMap
            /\ \A x \in DOMAIN items \ {u} : Has(items', x) /\ items'[x] = items[x]
            /\ \A x \in DOMAIN orders \ {u} : Has(orders', x) /\ orders'[x] = orders[x]
            /\ Len(orders'[u]) = Len(Get(orders, u, << >>)) + 1
            /\ SubSeq(orders'[u], 1, Len(orders'[u]) - 1) = Get(orders, u, << >>)
            /\ LET new == Last(orders'[u])
               IN /\ new.Status = "active" /\ new.DeliveryDate = NoDate
                  /\ new.ID \notin OrderIDs(orders)
                  /\ new.Address = a /\ a \in Addresses[u]
                  /\ new.CreatedAt = now
                  /\ \E cart \in GetCart(u) :
                       /\ new.OrderPrice = cart.OrderPrice
                       /\ new.DeliveryPrice = cart.DeliveryPrice
                       /\ new.TotalPrice = cart.TotalPrice
                       /\ new.TotalItems = cart.TotalItems
                       /\ new.Items = OrderedItems(cart)
                       /\ Len(new.Items) >= 1]_vars

\* a checkout that succeeded for a user who already had an order: the cart
\* is gone and the new order stands last, under a new id
C16_Witness ==
  /\ oret.op = "MakeNewOrder" /\ oret.err = "ok"
  /\ \E u \in DOMAIN orders :
       /\ ~Has(items, u)
       /\ Len(orders[u]) = 2
       /\ Last(orders[u]).Status = "active" /\ Last(orders[u]).CreatedAt = now
       /\ Last(orders[u]).TotalPrice = 250 /\ Last(orders[u]).TotalItems = 1
       /\ Last(orders[u]).ID # orders[u][1].ID

(***************************************************************************)
(* Claims about the cart                                                   *)
(***************************************************************************)
\* the line items of all carts
Lines(its) ==
  UNION { {<<u, p, its[u][p]>> : p \in DOMAIN its[u]} : u \in DOMAIN its }

HasLine(its, u, p) == Has(its, u) /\ Has(its[u], p)

\* C18: on a line of quantity q >= 1 a RemoveItem call returns q - 1 and
\* leaves the quantity at q - 1, so q calls return q - 1 down to 0; the
\* call that returns 0 takes the line away, and one more RemoveItem then
\* returns 0 and changes nothing
C18_RemoveCountsDown ==
  [][\A u \in OrderUsers, p \in ProductArgs :
       oret'.op = "RemoveItem" /\ RemoveItem(u, p) /\ Has(items, u)
         => IF Has(items[u], p)
            THEN LET q == items[u][p].Quantity
                 IN /\ q >= 1
                    /\ oret'.err = "ok" /\ oret'.val = q - 1
                    /\ IF q = 1
                       THEN Lines(items') = Lines(items) \ {<<u, p, items[u][p]>>}
                       ELSE Lines(items') =
                              (Lines(items) \ {<<u, p, items[u][p]>>})
                                \cup {<<u, p, CartItem(p, q - 1)>>}
                    /\ Has(items', u)
            ELSE ProductExists(p)
                   => oret'.err = "ok" /\ oret'.val = 0 /\ items' = items]_vars

\* the first of two removals from a line of quantity 2 has returned 1
C18_Witness ==
  /\ oret.op = "RemoveItem" /\ oret.err = "ok" /\ oret.val = 1
  /\ \E u \in DOMAIN items : \E p \in DOMAIN items[u] : items[u][p].Quantity = 1

\* C19: a RemoveItem call for a product the caller's cart has no line of
\* returns 0 without an error and leaves the line items as they are,
\* whether or not the catalog knows the product
C19_RemoveAbsentIsNoOp ==
  [][\A u \in OrderUsers, p \in ProductArgs :
       oret'.op = "RemoveItem" /\ RemoveItem(u, p) /\ ~HasLine(items, u, p)
         => /\ oret'.err = "ok" /\ oret'.val = 0
            /\ Lines(items') = Lines(items)]_vars

\* C20: in every cart reached from an empty store by AddItem, RemoveItem
\* and ClearCart calls, every stored line has a quantity of at least 1 and
\* is stored under the product id it carries
C20_LinesWellFormed ==
  \A u \in DOMAIN items : \A p \in DOMAIN items[u] :
    items[u][p].Quantity >= 1 /\ items[u][p].ProductID = p

\* a removal has taken one line of a cart away and the other line stays
C20_Witness ==
  /\ oret.op = "RemoveItem" /\ oret.err = "ok" /\ oret.val = 0
  /\ \E u \in DOMAIN items :
       DOMAIN items[u] = {"p2"} /\ items[u]["p2"] = CartItem("p2", 1)

(***************************************************************************)
(* Claims about request threads in the cart and the orders                 *)
(***************************************************************************)
\* C13: no step writes shared state while its thread holds a lock in read
\* mode only: the orders (status and date set by GetOrders), the
\* transaction logs (sorted by GetTransactions) and the carts change only
\* in steps of a thread that holds the service's lock exclusively
C13_WritesUnderExclusiveLock ==
  [][/\ orders' # orders => omux.writer # "none"
     /\ transactions' # transactions => mux.writer # "none"
     /\ items' # items => cmux.writer # "none"]_vars

\* thread t is in a checkout that has cleared the cart and has not yet
\* appended the order
Limbo(t) ==
  loc[t].op = "MakeNewOrder" /\ pc[t] \in {"x_unlock", "o_new", "o_lock", "o_append"}

\* C15: a checkout is one critical section: while a MakeNewOrder call has
\* cleared the cart and not yet appended its order, no other thread reads
\* that user's cart or lists that user's orders
C15_CheckoutIndivisible ==
  [][\A t \in Threads : \A o \in Threads \ {t} :
       Limbo(t) /\ loc[o].user = loc[t].user
         => ~CartRead(o) /\ ~ListOrders(o)]_vars

\* the quantity of the line the threads add to, before any of them runs
StartQuantity == ConcCart[TestUser]["p1"].Quantity

Quantity(its, u, p) == IF HasLine(its, u, p) THEN its[u][p].Quantity ELSE 0

\* C17: concurrent successful AddItem calls of one user for one product
\* each add one: a call that has read the quantity writes before any other
\* call changes the line, and when the two threads have each made one
\* such call and nothing else the quantity is 2 above where it started and
\* the two calls returned the two distinct values in between
C17_ConcurrentAdds ==
  /\ \A t \in Threads :
       pc[t] = "a_write" => Quantity(items, loc[t].user, loc[t].arg) = loc[t].seen
  /\ \A t \in Threads : \A o \in Threads \ {t} :
       /\ loc[t].op = "AddItem" /\ loc[o].op = "AddItem"
       /\ loc[t].user = loc[o].user /\ loc[t].arg = loc[o].arg
       /\ pc[t] = "done" /\ pc[o] = "done"
       /\ loc[t].err = "ok" /\ loc[o].err = "ok"
       /\ ncalls[t] = 1 /\ ncalls[o] = 1
       => /\ Quantity(items, loc[t].user, loc[t].arg) = StartQuantity + 2
          /\ {loc[t].val, loc[o].val} = {StartQuantity + 1, StartQuantity + 2}

\* two AddItem calls for the same line, both issued before either took the
\* lock, have both returned
C17_Witness ==
  \E t \in Threads, o \in Threads :
    /\ t # o /\ pc[t] = "done" /\ pc[o] = "done"
    /\ loc[t].op = "AddItem" /\ loc[o].op = "AddItem"
    /\ loc[t].arg = "p1" /\ loc[o].arg = "p1"
    /\ loc[t].val = StartQuantity + 1 /\ loc[o].val = StartQuantity + 2
    /\ items[TestUser]["p1"].Quantity = StartQuantity + 2

\* C21: GetCart returns no error and lists one item per line whose product
\* the catalog knows, unavailable products included and the other lines
\* left out, each with the line's quantity and the product's price and
\* availability; orderPrice is the sum of price * quantity and totalItems
\* the sum of the quantities over the listed items that are available, and
\* totalPrice is deliveryPrice + orderPrice
C21_CartListing ==
  [][\A u \in OrderUsers :
       oret'.op = "GetCart" /\ ReadCart(u)
         => LET cart == Get(items, u, EmptyMap)
                r == oret'.val
                known == {p \in DOMAIN cart : cart[p].ProductID \in DOMAIN Catalog}
                avail == {p \in known : Catalog[cart[p].ProductID].Available}
            IN /\ oret'.err = "ok"
               /\ Len(r.Items) = Cardinality(known)
               /\ \A p \in known : \E i \in 1..Len(r.Items) :
                    r.Items[i] = [ProductID |-> cart[p].ProductID,
                                  Quantity |-> cart[p].Quantity,
                                  Price |-> Catalog[cart[p].ProductID].Price,
                                  Available |-> Catalog[cart[p].ProductID].Available]
               /\ r.OrderPrice =
                    SumOver([p \in avail |->
                               Catalog[cart[p].ProductID].Price * cart[p].Quantity], avail)
               /\ r.TotalItems = SumOver([p \in avail |-> cart[p].Quantity], avail)
               /\ r.DeliveryPrice = DeliveryPrice
               /\ r.TotalPrice = DeliveryPrice + r.OrderPrice]_vars

\* the listing of a cart of three lines: two units of the available
\* product, one of the unavailable one, one of a product the catalog lacks
C21_Witness ==
  /\ oret.op = "GetCart" /\ oret.err = "ok"
  /\ DOMAIN items[TestUser] = {"p1", "p2", "px"}
  /\ items[TestUser]["p1"].Quantity = 2
  /\ Len(oret.val.Items) = 2
  /\ oret.val.OrderPrice = 200 /\ oret.val.TotalItems = 2
  /\ oret.val.TotalPrice = 350

(***************************************************************************)
(* Further claims about the wallet                                         *)
(***************************************************************************)
\* C22: for a user with N stored transactions and a page size P >= 1,
\* GetTransactions returns totalPages = ceil(N / P), the least count of
\* pages of P that hold N entries, whatever page >= 1 is asked for, and a
\* page past totalPages comes back as an empty grouping with that count
C22_Pagination ==
  [][\A u \in Callers, p \in 1..MaxPage, ps \in 1..MaxPageSize :
       ret'.op = "GetTransactions" /\ GetTransactions(u, p, ps)
         => LET n == Len(Log(transactions, u))
                r == ret'.data
            IN /\ ret'.err = "ok"
               /\ r.CurrentPage = p
               /\ r.TotalPages >= 0
               /\ r.TotalPages * ps >= n
               /\ (r.TotalPages - 1) * ps < n
               /\ p > r.TotalPages => r.Data = EmptyMap]_vars

\* page 3 of a log of three entries at two a page: empty, of 2 pages
C22_Witness ==
  /\ ret.op = "GetTransactions"
  /\ Len(Log(transactions, TestUser)) = 3
  /\ ret.data.CurrentPage = 3 /\ ret.data.TotalPages = 2
  /\ ret.data.Data = EmptyMap

\* the day keys a counter can stand under
AllDays == 0..(Day(MaxTime) + 1)

SameCounters(dt1, dt2, except) ==
  \A v \in Users, d \in AllDays :
    <<v, d>> \notin except => DailyTotal(dt1, v, d) = DailyTotal(dt2, v, d)

SameBalances(acc1, acc2, except) ==
  /\ AccountKeys(acc1) = AccountKeys(acc2)
  /\ \A k \in AccountKeys(acc1) \ except : acc1[k[1]][k[2]] = acc2[k[1]][k[2]]

SameLogs(tx1, tx2, except) ==
  \A v \in Users \ except : Log(tx1, v) = Log(tx2, v)

\* C26: a successful TopupAccount adds the amount to the balance of the
\* account named and to the caller's counter of the current day, appends
\* one entry of that amount to the caller's log, returns the new balance,
\* and leaves every other account, counter and log as it was
C26_TopupEffect ==
  [][\A c \in TopupArgs, m \in TopupAmounts :
       ret'.op = "TopupAccount" /\ ret'.err = "ok" /\ TopupAccount(c[1], c[2], m)
         => LET u == c[1]
                a == c[2]
                d == Day(now)
            IN /\ accounts'[u][a].Balance = accounts[u][a].Balance + m
               /\ accounts'[u][a].ID = accounts[u][a].ID
               /\ accounts'[u][a].Type = accounts[u][a].Type
               /\ SameBalances(accounts, accounts', {<<u, a>>})
               /\ DailyTotal(dailyTopups', u, d) = DailyTotal(dailyTopups, u, d) + m
               /\ SameCounters(dailyTopups, dailyTopups', {<<u, d>>})
               /\ Len(transactions'[u]) = Len(Log(transactions, u)) + 1
               /\ IsPrefix(Log(transactions, u), transactions'[u])
               /\ Last(transactions'[u]).Amount = m
               /\ SameLogs(transactions, transactions', {u})
               /\ ret'.val = accounts'[u][a].Balance]_vars

\* the second accepted top-up of a day: the counter stands at 1000 and the
\* balance returned is the seed balance plus both amounts
C26_Witness ==
  /\ ret.op = "TopupAccount" /\ ret.err = "ok"
  /\ DailyTotal(dailyTopups, TestUser, Day(now)) = 1000
  /\ ret.val = SeedBalance + 1000
  /\ accounts[TestUser]["card1"].Balance = SeedBalance + 1000
  /\ Last(transactions[TestUser]).Amount \in {400, 600}

\* C27: a TopupAccount call that returns an error (BadRequest: the day's
\* total plus the amount is over 1000; NotFound: the account is not one of
\* the caller's) leaves every balance, every daily counter (an absent one
\* counting as 0) and every log as it was
C27_FailedTopupChangesNothing ==
  [][\A c \in TopupArgs, m \in TopupAmounts :
       ret'.op = "TopupAccount" /\ ret'.err # "ok" /\ TopupAccount(c[1], c[2], m)
         => /\ ret'.err \in {"BadRequest", "NotFound"}
            /\ accounts' = accounts
            /\ transactions' = transactions
            /\ SameCounters(dailyTopups, dailyTopups', {})]_vars

\* a top-up refused for the daily limit while the counter stands at 600
C27_Witness ==
  /\ ret.op = "TopupAccount" /\ ret.err = "BadRequest"
  /\ DailyTotal(dailyTopups, TestUser, Day(now)) = 600
  /\ accounts[TestUser]["card1"].Balance = SeedBalance + 600

\* the users whose profile carries the number
Holders(ph) == {v \in DOMAIN profileInfo : profileInfo[v] = ph}

\* what a TransferMoney call of u from account a to number ph must return
\* in r: the error of the first check that fails, in the order sender
\* account, funds, number known, recipient not the sender, recipient account
FirstFailure(u, a, ph, m, r) ==
  IF ~Has(accounts, u) \/ ~Has(accounts[u], a)
  THEN r.err = "NotFound" /\ r.msg = "sender account not found"
  ELSE IF accounts[u][a].Balance < m
  THEN r.err = "BadRequest" /\ r.msg = "insufficient funds"
  ELSE IF Holders(ph) = {}
  THEN r.err = "NotFound" /\ r.msg = "recipient not found"
  ELSE \E to \in Holders(ph) :
         IF to = u
         THEN r.err = "BadRequest" /\ r.msg = "cannot transfer to yourself"
         ELSE IF ~Has(accounts, to)
         THEN r.err = "NotFound" /\ r.msg = "recipient account not found"
         ELSE IF DOMAIN accounts[to] = {}
         THEN r.err = "NotFound" /\ r.msg = "recipient has no accounts"
         ELSE r.err = "ok"

C29_OrdersNewestFirst ==
  [][\A u \in OrderUsers :
       oret'.op = "GetOrders" /\ GetOrders(u)
         => LET mine == Get(orders, u, << >>)
                n == Len(mine)
            IN /\ oret'.err = "ok"
               /\ Len(oret'.val) = n
               /\ \A i \in 1..n : Fixed(oret'.val[i]) = Fixed(mine[n + 1 - i])]_vars

\* a listing of two orders of one user: the one appended last comes first
C29_Witness ==
  /\ oret.op = "GetOrders" /\ oret.err = "ok"
  /\ \E u \in DOMAIN orders :
       /\ Len(orders[u]) = 2 /\ Len(oret.val) = 2
       /\ orders[u][1].ID # orders[u][2].ID
       /\ oret.val[1] = orders[u][2] /\ oret.val[2] = orders[u][1]

\* C30: AddItem for a product the catalog does not hold returns NotFound
\* and leaves every cart as it was; for a product it holds, AddItem returns
\* 1 when the caller had no line for it and the line's quantity plus 1
\* otherwise, sets the line to that quantity, and changes no other line
C30_AddItem ==
  [][\A u \in OrderUsers, p \in ProductArgs :
       oret'.op = "AddItem" /\ AddItem(u, p)
         => IF p \notin DOMAIN Catalog
            THEN oret'.err = "NotFound" /\ items' = items
            ELSE LET q == IF HasLine(items, u, p) THEN items[u][p].Quantity + 1 ELSE 1
                     old == IF HasLine(items, u, p) THEN {<<u, p, items[u][p]>>} ELSE {}
                 IN /\ oret'.err = "ok" /\ oret'.val = q
                    /\ Lines(items') = (Lines(items) \ old) \cup {<<u, p, CartItem(p, q)>>}]_vars

\* the second AddItem for a line has returned 2 while another user's cart
\* holds its line unchanged
C30_Witness ==
  /\ oret.op = "AddItem" /\ oret.err = "ok" /\ oret.val = 2
  /\ \E u \in DOMAIN items, v \in DOMAIN items :
       /\ u # v
       /\ \E p \in DOMAIN items[u] : items[u][p].Quantity = 2
       /\ \E p \in DOMAIN items[v] : items[v][p].Quantity = 1

(***************************************************************************)
(* Backup and restart: the backup service writes each component's          *)
(* GetBackupData as JSON, config reads the files back at startup and       *)
(* initServices constructs the components from what was read.              *)
(***************************************************************************)
\* json.Marshal of an Order: CreatedAt carries json:"-" and is not written
OrderJSON(o) == [f \in DOMAIN o \ {"CreatedAt"} |-> o[f]]

\* json.Unmarshal into an Order: the field the file lacks keeps its zero value
OrderFromJSON(j) ==
  Order(j.ID, j.Status, j.DeliveryDate, ZeroTime, j.Items, j, j.Address)

\* json.Marshal of a CartItem under its tags "id" and "quantity"
CartItemJSON(c) == [id |-> c.ProductID, quantity |-> c.Quantity]

CartItemFromJSON(j) == CartItem(j.id, j.quantity)

\* orders.json as written from OrderService.GetBackupData
OrdersFile(os) == [u \in DOMAIN os |-> [i \in 1..Len(os[u]) |-> OrderJSON(os[u][i])]]

\* cart_items.json as written from Cart.GetBackupData
CartFile(its) == [u \in DOMAIN its |-> [p \in DOMAIN its[u] |-> CartItemJSON(its[u][p])]]

\* config: the orders read from orders.json
getOrders(file) ==
  [u \in DOMAIN file |-> [i \in 1..Len(file[u]) |-> OrderFromJSON(file[u][i])]]

\* config: the carts read from cart_items.json
getCartItems(file) ==
  [u \in DOMAIN file |-> [p \in DOMAIN file[u] |-> CartItemFromJSON(file[u][p])]]

\* config: wallet_data.json is read into InitialWalletData field by field
getWalletData(file) == file

\* NewWalletService(userData): empty maps and initTestData at time t; the
\* constructor has no parameter for the wallet data the config holds
NewWalletService(data, t) ==
  [Accounts |-> SeedAccounts,
   Transactions |-> [u \in {TestUser} |-> SeedTransactions(t)],
   DailyTopups |-> EmptyMap,
   UserPhones |-> [u \in {TestUser} |-> TestPhone]]

\* the process stops after a backup of every component and starts again
Restart ==
  LET cfg == [InitialCartItems |-> getCartItems(CartFile(items)),
              InitialOrders |-> getOrders(OrdersFile(orders)),
              InitialWalletData |-> getWalletData(WalletBackup)]
      ws == NewWalletService(cfg.InitialWalletData, now)
  IN /\ items' = cfg.InitialCartItems
     /\ orders' = cfg.InitialOrders
     /\ accounts' = ws.Accounts
     /\ transactions' = ws.Transactions
     /\ dailyTopups' = ws.DailyTopups
     /\ userPhones' = ws.UserPhones
     /\ oret' = OrderRet("Restart", "", "ok", NoData)
     /\ ret' = Ret("Restart", "ok", "", 0, NoData)
     /\ UNCHANGED <<profileInfo, now, accepted, concVars>>

\* a behaviour restarts the process once; the calls before it fill the
\* components, the calls after it read what came back
Restarted == ret.op = "Restart"

\* the top-up made before the restart
RestartTopups == {<<TestUser, "card1", 400>>}

RestartNext ==
  \/ \E u \in CartUsers, p \in ProductArgs :
       Room(p, MaxCartItems) /\ AddItem(u, p) /\ UNCHANGED <<now, walletVars, concVars>>
  \/ \E u \in OrderUsers, a \in AddressArgs :
       MakeNewOrder(u, a) /\ UNCHANGED <<now, walletVars, concVars>>
  \/ \E u \in OrderUsers : GetOrders(u) /\ UNCHANGED <<now, walletVars, concVars>>
  \/ \E c \in RestartTopups :
       ~Restarted /\ TopupAccount(c[1], c[2], c[3]) /\ UNCHANGED <<concVars, orderVars>>
  \/ OrderTick /\ UNCHANGED <<walletVars, concVars>>
  \/ ~Restarted /\ Restart

RestartSpec == CartInit /\ [][RestartNext]_vars

\* C23: a component constructed at startup from the persisted snapshot of a
\* state has that state: the same cart lines, the same orders with all
\* their fields, the same accounts and balances, transaction logs, daily
\* counters and cached phones
C23_RestoreRoundTrip ==
  [][oret'.op = "Restart" /\ Restart
       => /\ items' = items
          /\ orders' = orders
          /\ walletState' = walletState]_vars

(***************************************************************************)
(* OrderService.GetBackupData beside GetOrders: both hold the order mutex  *)
(* for reading, so the copy loop and the completion loop run together.     *)
(***************************************************************************)
SnapshotCalls ==
  {[op |-> "GetBackupData", user |-> "", arg |-> ""],
   [op |-> "GetOrders", user |-> TestUser, arg |-> ""],
   [op |-> "GetOrders", user |-> "u2", arg |-> ""]}

IssueSnapshotCall(t) ==
  \E c \in SnapshotCalls :
    Issue(t, [Idle EXCEPT !.op = c.op, !.user = c.user, !.arg = c.arg,
                          !.snap = EmptyMap],
          IF c.op = "GetBackupData" THEN "b_lock" ELSE FirstOrderStep(c.op))

\* GetBackupData, line 154: s.mux.RLock()
BackupLock(t) ==
  /\ pc[t] = "b_lock"
  /\ CanAcquire(omux, "read")
  /\ omux' = Acquire(omux, t, "read")
  /\ OStep(t, "b_pick", loc[t])
  /\ UNCHANGED <<orders, items, cmux, smux, favourites>>

\* line 159: the next user of the range over s.orders, in any order
BackupPick(t) ==
  /\ pc[t] = "b_pick"
  /\ LET l == loc[t]
         left == DOMAIN orders \ DOMAIN l.snap
     IN IF left = {} THEN OStep(t, "b_unlock", [l EXCEPT !.err = "ok"])
        ELSE \E u \in left :
               OStep(t, IF Len(orders[u]) = 0 THEN "b_pick" ELSE "b_head",
                     [l EXCEPT !.snap = Put(l.snap, u, << >>), !.toUser = u])
  /\ UNCHANGED <<orders, items, cmux, omux, smux, favourites>>

\* lines 163-172: the fields of the order read up to CreatedAt
BackupHead(t) ==
  /\ pc[t] = "b_head"
  /\ LET l == loc[t]
         i == Len(l.snap[l.toUser]) + 1
     IN OStep(t, "b_tail", [l EXCEPT !.cart = orders[l.toUser][i]])
  /\ UNCHANGED <<orders, items, cmux, omux, smux, favourites>>

\* lines 173-189: DeliveryDate read, the items copied, the copy stored
BackupTail(t) ==
  /\ pc[t] = "b_tail"
  /\ LET l == loc[t]
         u == l.toUser
         i == Len(l.snap[u]) + 1
         copy == [l.cart EXCEPT !.DeliveryDate = orders[u][i].DeliveryDate]
     IN OStep(t, IF i = Len(orders[u]) THEN "b_pick" ELSE "b_head",
              [l EXCEPT !.snap = Put(l.snap, u, Append(l.snap[u], copy)),
                        !.cart = NoData])
  /\ UNCHANGED <<orders, items, cmux, omux, smux, favourites>>

\* the deferred s.mux.RUnlock() and the return of backupData
BackupUnlock(t) ==
  /\ pc[t] = "b_unlock"
  /\ omux' = Release(omux, t)
  /\ OStep(t, "done", loc[t])
  /\ UNCHANGED <<orders, items, cmux, smux, favourites>>

SnapshotNext ==
  \/ \E t \in Threads : IssueSnapshotCall(t) /\ UNCHANGED <<orderVars, cmux, omux, smux, favourites>>
  \/ \E t \in Threads : BackupLock(t)
  \/ \E t \in Threads : BackupPick(t)
  \/ \E t \in Threads : BackupHead(t)
  \/ \E t \in Threads : BackupTail(t)
  \/ \E t \in Threads : BackupUnlock(t)
  \/ \E t \in Threads : OLock(t)
  \/ \E t \in Threads : ListOrders(t)
  \/ \E t \in Threads : OUnlock(t)
  \/ Tick /\ UNCHANGED <<concVars, orderVars>>

SnapshotSpec == ServiceConcInit /\ [][SnapshotNext]_vars

\* an order as the ledger held it before GetOrders completed it
Uncompleted(o) == [o EXCEPT !.Status = "active", !.DeliveryDate = NoDate]

\* C24: a snapshot GetBackupData has returned is a copy of the component's
\* state at one instant: every order in it is the order as the ledger holds
\* it or as the ledger held it before its completion, and no later call
\* changes it
C24_SnapshotOfOneInstant ==
  \A t \in Threads :
    pc[t] = "done" /\ loc[t].op = "GetBackupData"
      => /\ DOMAIN loc[t].snap = DOMAIN orders
         /\ \A u \in DOMAIN orders :
              /\ Len(loc[t].snap[u]) = Len(orders[u])
              /\ \A i \in 1..Len(orders[u]) :
                   loc[t].snap[u][i] \in {orders[u][i], Uncompleted(orders[u][i])}

(***************************************************************************)
(* The mutexes of all services and the order in which each operation takes *)
(* them.  An operation is the list of its Lock/RLock and deferred unlock   *)
(* statements, the calls into other services unfolded in place.            *)
(***************************************************************************)
L(n, mode) == [do |-> "lock", on |-> n, mode |-> mode]

U(n) == [do |-> "unlock", on |-> n, mode |-> ""]

\* UserData.GetProfile, GetUserIDByPhone, GetBackupData: s.mux.Lock()
DirectoryLocks == << L("users", "write"), U("users") >>

\* a directory call that asks the wallet while it holds its own mutex
DirectoryAskingWallet ==
  << L("users", "write"), L("wallet", "read"), U("wallet"), U("users") >>

GetProfileLocks == DirectoryLocks

\* Favourites.IsFavourite, AddFavourite, GetBackupData
FavouritesLocks == << L("favourites", "write"), U("favourites") >>

\* ProductsService.GetProductByID: RLock, then IsFavourite
GetProductByIDLocks == << L("products", "read") >> \o FavouritesLocks \o << U("products") >>

\* Cart.GetCart with one line in the cart: RLock, then getCartResponseItem
GetCartLocks == << L("cart", "read") >> \o GetProductByIDLocks \o << U("cart") >>

\* Cart.AddItem, RemoveItem, ClearCart
CartWriteLocks == << L("cart", "write"), U("cart") >>

\* MakeNewOrder: GetAddressByID, GetCart, ClearCart, then the order mutex
MakeNewOrderLocks ==
  << L("addresses", "read"), U("addresses") >> \o GetCartLocks \o CartWriteLocks
    \o << L("orders", "write"), U("orders") >>

\* TransferMoney: the wallet mutex held over GetUserIDByPhone and, through
\* getOrCreateUserPhone, over GetProfile
TransferMoneyLocks ==
  << L("wallet", "write") >> \o DirectoryLocks \o GetProfileLocks \o << U("wallet") >>

\* the backup goroutine: GetBackupData of each registered service in turn
BackupLocks ==
  DirectoryLocks \o << L("cart", "read"), U("cart") >> \o FavouritesLocks
    \o << L("orders", "read"), U("orders"), L("wallet", "read"), U("wallet") >>

LockCalls ==
  {"TransferMoney", "TopupAccount", "GetWallet", "GetProfile", "GetCart", "AddItem",
   "MakeNewOrder", "GetOrders", "GetProductByID", "AddReview", "AddAddress", "Backup"}

LockScript(op) ==
  IF op = "TransferMoney" THEN TransferMoneyLocks
  ELSE IF op = "TopupAccount" THEN << L("wallet", "write"), U("wallet") >>
  ELSE IF op = "GetWallet" THEN << L("wallet", "read"), U("wallet") >>
  ELSE IF op = "GetProfile" THEN GetProfileLocks
  ELSE IF op = "GetCart" THEN GetCartLocks
  ELSE IF op = "AddItem" THEN CartWriteLocks
  ELSE IF op = "MakeNewOrder" THEN MakeNewOrderLocks
  ELSE IF op = "GetOrders" THEN << L("orders", "read"), U("orders") >>
  ELSE IF op = "GetProductByID" THEN GetProductByIDLocks
  ELSE IF op = "AddReview" THEN << L("products", "write"), U("products") >>
  ELSE IF op = "AddAddress" THEN << L("addresses", "write"), U("addresses") >>
  ELSE BackupLocks

LockOf(n) ==
  IF n = "wallet" THEN mux
  ELSE IF n = "cart" THEN cmux
  ELSE IF n = "orders" THEN omux
  ELSE smux[n]

SetLock(n, m) ==
  /\ mux' = IF n = "wallet" THEN m ELSE mux
  /\ cmux' = IF n = "cart" THEN m ELSE cmux
  /\ omux' = IF n = "orders" THEN m ELSE omux
  /\ smux' = IF n \in Services THEN [smux EXCEPT ![n] = m] ELSE smux
  /\ UNCHANGED favourites

\* the statement thread t stands at
At(t) == LockScript(loc[t].op)[loc[t].seen]

IssueLockCall(t) ==
  \E op \in LockCalls : Issue(t, [Idle EXCEPT !.op = op, !.seen = 1], "run")

\* thread t goes on to its next statement, or returns
Advance(t) ==
  /\ pc' = [pc EXCEPT ![t] = IF loc[t].seen = Len(LockScript(loc[t].op))
                             THEN "done" ELSE "run"]
  /\ loc' = [loc EXCEPT ![t].seen = @ + 1]

\* Lock or RLock returns
RunLock(t) ==
  /\ pc[t] = "run" /\ At(t).do = "lock"
  /\ CanAcquire(LockOf(At(t).on), At(t).mode)
  /\ SetLock(At(t).on, Acquire(LockOf(At(t).on), t, At(t).mode))
  /\ Advance(t)
  /\ UNCHANGED <<ncalls, seqVars, orderVars>>

\* Lock finds the mutex taken: the writer is announced and new readers wait
RunWait(t) ==
  /\ pc[t] = "run" /\ At(t).do = "lock" /\ At(t).mode = "write"
  /\ ~CanAcquire(LockOf(At(t).on), "write")
  /\ t \notin LockOf(At(t).on).waiting
  /\ SetLock(At(t).on, [LockOf(At(t).on) EXCEPT !.waiting = @ \cup {t}])
  /\ UNCHANGED <<pc, loc, ncalls, seqVars, orderVars>>

\* the deferred Unlock or RUnlock
RunUnlock(t) ==
  /\ pc[t] = "run" /\ At(t).do = "unlock"
  /\ SetLock(At(t).on, Release(LockOf(At(t).on), t))
  /\ Advance(t)
  /\ UNCHANGED <<ncalls, seqVars, orderVars>>

LockNext ==
  \/ \E t \in Threads : IssueLockCall(t) /\ UNCHANGED <<orderVars, cmux, omux, smux, favourites>>
  \/ \E t \in Threads : RunLock(t)
  \/ \E t \in Threads : RunWait(t)
  \/ \E t \in Threads : RunUnlock(t)

LockSpec == ServiceConcInit /\ [][LockNext]_vars

\* the scheduler runs every goroutine that can run: a thread standing at a
\* statement that can be executed executes it
LockFairSpec ==
  LockSpec /\ \A t \in Threads : WF_vars(RunLock(t) \/ RunWait(t) \/ RunUnlock(t))

\* thread t is inside a call and not waiting for a mutex
CanRun(t) ==
  /\ pc[t] = "run"
  /\ At(t).do = "lock" => CanAcquire(LockOf(At(t).on), At(t).mode)

\* C25: the system is deadlock-free: whenever threads are inside calls, one
\* of them can take its next step, and under fair scheduling every call
\* that was started returns
C25_DeadlockFree ==
  /\ []((\E t \in Threads : pc[t] = "run") => \E t \in Threads : CanRun(t))
  /\ \A t \in Threads : (pc[t] = "run") ~> (pc[t] = "done")

\* a thread in TransferMoney holds the wallet mutex and waits for the user
\* directory, which the other thread holds
C25_Witness ==
  \E t \in Threads, o \in Threads :
    /\ pc[t] = "run" /\ loc[t].op = "TransferMoney"
    /\ mux.writer = t /\ smux["users"].writer = o /\ t \in smux["users"].waiting

(***************************************************************************)
(* Claims about placed orders and the cart                                 *)
(***************************************************************************)
\* C31: once an order is placed, no later AddItem, RemoveItem, ClearCart or
\* MakeNewOrder call of any user changes it: it keeps its place in its
\* user's list with its items, quantities, prices and totals
C31_PlacedOrderKept ==
  [][oret'.op \in {"AddItem", "RemoveItem", "ClearCart", "MakeNewOrder"}
       => \A u \in DOMAIN orders :
            /\ Has(orders', u) /\ Len(orders'[u]) >= Len(orders[u])
            /\ \A i \in 1..Len(orders[u]) : orders'[u][i] = orders[u][i]]_vars

\* a user with a placed order has put the product into the cart again and
\* placed a second order
C31_Witness ==
  /\ oret.op = "MakeNewOrder" /\ oret.err = "ok"
  /\ \E u \in DOMAIN orders :
       Len(orders[u]) = 2 /\ orders[u][1].Items # << >> /\ orders[u][2].Items # << >>

RECURSIVE UnitsIn(_, _)
UnitsIn(its, p) ==
  IF its = << >> THEN 0
  ELSE (IF Head(its).ID = p THEN Head(its).Quantity ELSE 0) + UnitsIn(Tail(its), p)

\* the units of product p in the orders of user u
RECURSIVE OrderedUnits(_, _)
OrderedUnits(os, p) ==
  IF os = << >> THEN 0 ELSE UnitsIn(Head(os).Items, p) + OrderedUnits(Tail(os), p)

\* the threads whose one call was an AddItem of p by u that returned success
Added(u, p) ==
  {t \in Threads : /\ pc[t] = "done" /\ loc[t].op = "AddItem" /\ loc[t].err = "ok"
                   /\ loc[t].user = u /\ loc[t].arg = p}

\* C33: checkout loses no unit: when a MakeNewOrder and the AddItem calls
\* of the same user have returned, every unit of an available product that
\* was in the cart or that an AddItem reported as added is in the user's
\* cart or in one of the user's orders
C33_NoUnitLost ==
  (\A t \in Threads : pc[t] \in {"idle", "done"} /\ ncalls[t] <= 1)
    => Quantity(items, TestUser, "p1") + OrderedUnits(Get(orders, TestUser, << >>), "p1")
         >= StartQuantity + Cardinality(Added(TestUser, "p1"))

\* C34: one cart content yields at most one order: when two MakeNewOrder
\* calls of one user, the only calls made, have both returned, at most one
\* of them succeeded and the user has at most one new order
C34_OneOrderPerCart ==
  \A t \in Threads : \A o \in Threads \ {t} :
    /\ loc[t].op = "MakeNewOrder" /\ loc[o].op = "MakeNewOrder"
    /\ loc[t].user = loc[o].user
    /\ pc[t] = "done" /\ pc[o] = "done"
    /\ ncalls[t] = 1 /\ ncalls[o] = 1
    => /\ ~(loc[t].err = "ok" /\ loc[o].err = "ok")
       /\ Len(Get(orders, loc[t].user, << >>)) <= 1

\* the price of a list of order items
RECURSIVE ItemsPrice(_)
ItemsPrice(its) ==
  IF its = << >> THEN 0 ELSE Head(its).Price * Head(its).Quantity + ItemsPrice(Tail(its))

\* the units in a list of order items
RECURSIVE ItemsUnits(_)
ItemsUnits(its) == IF its = << >> THEN 0 ELSE Head(its).Quantity + ItemsUnits(Tail(its))

\* C35: every order in the ledger, whatever calls ran beside the checkout
\* that made it, has at least one item, an orderPrice that is the sum of
\* price * quantity over its items, a totalItems that is the sum of their
\* quantities, and totalPrice = orderPrice + deliveryPrice
C35_OrdersConsistent ==
  \A u \in DOMAIN orders : \A i \in 1..Len(orders[u]) :
    LET o == orders[u][i]
    IN /\ Len(o.Items) >= 1
       /\ o.OrderPrice = ItemsPrice(o.Items)
       /\ o.TotalItems = ItemsUnits(o.Items)
       /\ o.TotalPrice = o.OrderPrice + o.DeliveryPrice

\* a checkout has made an order of the two units that the cart held after
\* another thread's AddItem
C35_Witness ==
  /\ \E t \in Threads : loc[t].op = "AddItem" /\ loc[t].err = "ok" /\ pc[t] = "done"
  /\ \E t \in Threads : loc[t].op = "MakeNewOrder" /\ loc[t].err = "ok" /\ pc[t] = "done"
  /\ \E u \in DOMAIN orders : \E i \in 1..Len(orders[u]) :
       /\ orders[u][i].CreatedAt # ZeroTime
       /\ orders[u][i].Items[1].Quantity = StartQuantity + 1

WalkTopups == {<<TestUser, "card1", 400>>, <<TestUser, "card1", 600>>}

\* the client chooses a user and a page size
WalkStart(t, u, ps) ==
  /\ pc[t] = "idle"
  /\ pc' = [pc EXCEPT ![t] = "walk"]
  /\ loc' = [loc EXCEPT ![t] = [Idle EXCEPT !.op = "Walk", !.user = u, !.val = ps]]
  /\ ncalls' = [ncalls EXCEPT ![t] = @ + 1]
  /\ UNCHANGED <<seqVars, orderVars, mux, cmux, omux, smux, favourites>>

\* one call for the next page; the client stops at the page count it is told
WalkStep(t) ==
  /\ pc[t] = "walk"
  /\ GetTransactions(loc[t].user, loc[t].seen + 1, loc[t].val)
  /\ loc' = [loc EXCEPT ![t].seen = @ + 1, ![t].snap = Append(@, ret'.data.Data)]
  /\ pc' = [pc EXCEPT ![t] = IF loc[t].seen + 1 >= ret'.data.TotalPages
                             THEN "done" ELSE "walk"]
  /\ UNCHANGED <<orderVars, mux, ncalls, cmux, omux, smux, favourites>>

\* the wallet changes only before the first client starts
PageWalkNext ==
  \/ \E c \in WalkTopups :
       /\ \A t \in Threads : pc[t] = "idle"
       /\ TopupAccount(c[1], c[2], c[3])
       /\ UNCHANGED <<concVars, orderVars>>
  \/ Tick /\ UNCHANGED <<concVars, orderVars>>
  \/ \E t \in Threads, u \in Callers, ps \in 1..MaxPageSize : WalkStart(t, u, ps)
  \/ \E t \in Threads : WalkStep(t)

PageWalkSpec == WalletInit /\ [][PageWalkNext]_vars

\* how often an entry stands in a list
CountIn(list, e) == Cardinality({i \in 1..Len(list) : list[i] = e})

\* how often an entry stands on a page, over its date keys
RECURSIVE CountOnPage(_, _, _)
CountOnPage(data, ds, e) ==
  IF ds = {} THEN 0
  ELSE LET d == CHOOSE x \in ds : TRUE
       IN CountIn(data[d], e) + CountOnPage(data, ds \ {d}, e)

RECURSIVE CountOnPages(_, _)
CountOnPages(pages, e) ==
  IF pages = << >> THEN 0
  ELSE CountOnPage(Head(pages), DOMAIN Head(pages), e)
         + CountOnPages(Tail(pages), e)

\* C37: the pages 1..ceil(N/P) that GetTransactions returns for a user with
\* N transactions and page size P, with no wallet change in between, divide
\* the user's transactions among them: every stored transaction stands on
\* the pages as often as in the log, no page holds more than P, everything
\* on page k is at least as new as everything on page k + 1, and every
\* transaction is filed under the date key of its own day.
C37_PagesPartition ==
  \A t \in Threads :
    pc[t] = "done" /\ loc[t].op = "Walk" /\ Has(transactions, loc[t].user) =>
      LET log == transactions[loc[t].user]
          n == Len(log)
          ps == loc[t].val
          pages == loc[t].snap
      IN /\ Len(pages) * ps >= n /\ (Len(pages) - 1) * ps < n
         /\ \A i \in 1..n : CountOnPages(pages, log[i]) = CountIn(log, log[i])
         /\ \A k \in 1..Len(pages) :
              /\ TotalEntries(pages[k]) <= ps
              /\ TotalEntries(pages[k]) >= 1
              /\ \A d \in DOMAIN pages[k] : \A i \in 1..Len(pages[k][d]) :
                   Day(pages[k][d][i].Time) = d
              /\ k < Len(pages) =>
                   \A d \in DOMAIN pages[k], e \in DOMAIN pages[k + 1] :
                     \A i \in 1..Len(pages[k][d]), j \in 1..Len(pages[k + 1][e]) :
                       pages[k][d][i].Time >= pages[k + 1][e][j].Time

\* five entries read at two a page, two of them of one minute and of
\* different amounts
C37_Witness ==
  \E t \in Threads :
    /\ pc[t] = "done" /\ loc[t].op = "Walk" /\ loc[t].user = TestUser
    /\ loc[t].val = 2 /\ Len(loc[t].snap) = 3
    /\ \E i, j \in 1..Len(transactions[TestUser]) :
         /\ transactions[TestUser][i].Time = transactions[TestUser][j].Time
         /\ transactions[TestUser][i].Amount # transactions[TestUser][j].Amount

(***************************************************************************)
(* Claims about orders that come back from a backup                        *)
(***************************************************************************)
\* the instants at which the orders can be listed after a restart
ListingTimes == now..(StartTime + TickStep * MaxOrderTicks)

\* C38: the delivery window of an order survives backup and restore: an
\* order that is active when the ledger is written out and read back at
\* startup is listed by GetOrders, at every later instant, as it would have
\* been without the restart: active until its creation time plus the
\* delivery time has passed, and then completed with the delivery date that
\* follows from its creation time.
C38_DeliveryWindowKept ==
  [][oret'.op = "Restart" /\ Restart =>
       \A u \in DOMAIN orders : \A i \in 1..Len(orders[u]) :
         orders[u][i].Status = "active" =>
           /\ Has(orders', u) /\ Len(orders'[u]) >= i
           /\ \A t \in ListingTimes :
                LET before == Delivered(orders[u][i], t)
                    after == Delivered(orders'[u][i], t)
                IN /\ after.Status = before.Status
                   /\ after.Status = "completed" =>
                        after.DeliveryDate = before.DeliveryDate]_vars

(***************************************************************************)
(* ProductsService.GetProductsList over the products the service was built *)
(* with, and the Favourites it asks                                        *)
(***************************************************************************)
\* the step of the slice that GetProductsList cuts
defaultPageSize == 20

\* ProductsService.products, in the order of the configuration
Products == << "p1", "p2", "p3" >>

\* ProductsService.productsPerCategory
ProductsPerCategory ==
  [c \in {"c1", "c2"} |-> IF c = "c1" THEN << "p1", "p2" >> ELSE << "p3" >>]

CategoryArgs == {"", "c1", "c2", "favourite", "cx"}

FavouriteArgs == {"p1", "p3", "px"}

\* Favourites.IsFavourite for the caller u
IsFavourite(fav, u, p) == p \in fav[u]

\* Product.ToPreview with IsFavorite filled in
Preview(fav, u, p) ==
  [ID |-> p, Price |-> Catalog[p].Price, IsFavorite |-> IsFavourite(fav, u, p)]

\* lines 84-102: the list a call pages over
ListedProducts(fav, u, category) ==
  IF category = "favourite"
  THEN SelectSeq(Products, LAMBDA p : IsFavourite(fav, u, p))
  ELSE IF category = "" THEN Products
  ELSE ProductsPerCategory[category]

GetProductsList(u, page, pageSize, category) ==
  IF category # "" /\ category # "favourite" /\ category \notin DOMAIN ProductsPerCategory
  THEN /\ oret' = OrderRet("GetProductsList", u, "category not found", NoData)
       /\ UNCHANGED <<orders, items, favourites>>
  ELSE LET products == ListedProducts(favourites, u, category)
           productsAmount == Len(products)
           totalPages == CeilDiv(productsAmount, pageSize)
           paginationStart == (page - 1) * defaultPageSize
           paginationEnd == Min(paginationStart + defaultPageSize, productsAmount)
           result == IF paginationStart >= productsAmount THEN << >>
                     ELSE [i \in 1..(paginationEnd - paginationStart) |->
                             Preview(favourites, u, products[paginationStart + i])]
       IN /\ oret' = OrderRet("GetProductsList", u, "ok",
                              [CurrentPage |-> page, TotalPages |-> totalPages,
                               Data |-> result])
          /\ UNCHANGED <<orders, items, favourites>>

\* ProductsService.AddFavourite: the index is asked, then Favourites
AddFavourite(u, p) ==
  IF ~ProductExists(p)
  THEN /\ oret' = OrderRet("AddFavourite", u, "NotFound", NoData)
       /\ UNCHANGED <<orders, items, favourites>>
  ELSE /\ favourites' = [favourites EXCEPT ![u] = @ \cup {p}]
       /\ oret' = OrderRet("AddFavourite", u, "ok", NoData)
       /\ UNCHANGED <<orders, items>>

RemoveFavourite(u, p) ==
  IF ~ProductExists(p)
  THEN /\ oret' = OrderRet("RemoveFavourite", u, "NotFound", NoData)
       /\ UNCHANGED <<orders, items, favourites>>
  ELSE /\ favourites' = [favourites EXCEPT ![u] = @ \ {p}]
       /\ oret' = OrderRet("RemoveFavourite", u, "ok", NoData)
       /\ UNCHANGED <<orders, items>>

listVars == <<seqVars, mux, pc, loc, ncalls, cmux, omux, smux>>

ProductsNext ==
  \/ \E u \in OrderUsers, pg \in 1..MaxPage, ps \in 1..MaxPageSize, c \in CategoryArgs :
       GetProductsList(u, pg, ps, c) /\ UNCHANGED listVars
  \/ \E u \in OrderUsers, p \in FavouriteArgs :
       AddFavourite(u, p) /\ UNCHANGED listVars
  \/ \E u \in OrderUsers, p \in FavouriteArgs :
       RemoveFavourite(u, p) /\ UNCHANGED listVars

ProductsSpec == CartInit /\ [][ProductsNext]_vars

\* C39: for a list of N products and a page size P >= 1 GetProductsList
\* returns totalPages = ceil(N / P), and page k holds the products at the
\* positions (k-1)*P .. min(k*P, N)-1 of the list (counted from 0), so no
\* page holds more than P products and the pages 1..totalPages hold every
\* product once.
C39_ProductPages ==
  [][\A u \in OrderUsers, pg \in 1..MaxPage, ps \in 1..MaxPageSize, c \in CategoryArgs :
       oret'.op = "GetProductsList" /\ GetProductsList(u, pg, ps, c)
         /\ oret'.err = "ok"
         => LET list == ListedProducts(favourites, u, c)
                n == Len(list)
                r == oret'.val
                first == (pg - 1) * ps
                last == IF pg * ps < n THEN pg * ps ELSE n
            IN /\ r.CurrentPage = pg
               /\ r.TotalPages * ps >= n /\ (r.TotalPages - 1) * ps < n
               /\ Len(r.Data) <= ps
               /\ Len(r.Data) = (IF last > first THEN last - first ELSE 0)
               /\ \A i \in 1..Len(r.Data) : r.Data[i].ID = list[first + i]]_vars

====
